---------------------------- MODULE Spec2Model ----------------------------
(***************************************************************************)
(* A model of the bf compiler and its two interpreters:                    *)
(*   - the reference parser (src/src/lib.rs) and SimpleVM,                 *)
(*   - the tree-IR parser, the optimizer passes, the lowering to bytecode  *)
(*     (src/src/lib/optimized) and OptVM,                                  *)
(*   - the byte sources FixedInput and StdIn.                              *)
(* Pure functions of the source are operators; parsing, each optimizer     *)
(* round, lowering and each interpreter instruction are actions.           *)
(***************************************************************************)
EXTENDS Integers, Sequences, FiniteSets, TLC

VARIABLES
    source,     \* the program text, a sequence of characters
    input,      \* the bytes the byte source holds (FixedInput.data)
    pc,         \* position of the driver
    opt,        \* what optimized::parse returned
    simple,     \* what the reference parse returned
    cmds,       \* the tree IR held by optimize()
    step,       \* optimize()'s round counter
    last_count, \* the change count the last round reported
    code,       \* the lowered bytecode
    ovm,        \* the OptVM, its input, its output and its result
    svm,        \* the SimpleVM, its input, its output and its result
    stdin       \* the StdIn byte source and the terminal feeding it

vars == <<source, input, pc, opt, simple, cmds, step, last_count, code, ovm, svm, stdin>>

----------------------------------------------------------------------------
(* Bounds of the model *)

\* longest source enumerated exhaustively
MaxLen == 3
\* longest input held by FixedInput
MaxInput == 1
\* cells of the tape that exist in the model (the program has 30_000)
TapeLen == 3
\* output bytes after which a run is no longer followed
MaxOut == 3
\* optimizer rounds after which optimize() is no longer followed
MaxRounds == 8
\* lines the terminal can still deliver to StdIn
MaxLines == 3

\* u8 arithmetic wraps at 2^8
ByteMod == 256

Byte == 0 .. (ByteMod - 1)

\* an addition that is not reduced to a byte
wrapping_add_wide(a, b) == a + b

wrapping_add(a, b) == (a + b) % ByteMod
wrapping_sub(a, b) == (a - b) % ByteMod
wrapping_mul(a, b) == (a * b) % ByteMod

\* the eight commands and one comment character
Chars == {">", "<", "+", "-", ".", ",", "[", "]", "#"}

Last(s) == s[Len(s)]
Front(s) == SubSeq(s, 1, Len(s) - 1)

\* a for loop: st after body(st, i) has run for i = lo, lo + 1, ..., hi in
\* that order. The range is split in two and the state after the first half
\* is a value before the second half starts, which keeps the evaluation
\* shallow on long sequences.
RECURSIVE For(_, _, _, _)
For(body(_, _), st, lo, hi) ==
    IF lo > hi THEN st
    ELSE IF lo = hi THEN body(st, lo)
    ELSE LET mid == (lo + hi) \div 2
         IN  CHOOSE last \in {For(body, first, mid + 1, hi) : first \in {For(body, st, lo, mid)}} : TRUE

----------------------------------------------------------------------------
(* Lexer: src/src/lib/optimized/mod.rs lex *)

match_char(c) ==
    CASE c = ">" -> "IncPtr"
      [] c = "<" -> "DecPtr"
      [] c = "+" -> "IncData"
      [] c = "-" -> "DecData"
      [] c = "." -> "WriteByte"
      [] c = "," -> "ReadByte"
      [] c = "[" -> "LoopStart"
      [] c = "]" -> "LoopEnd"
      [] OTHER   -> "None"

\* lex with enumerate() applied after the filter: code_p counts commands only
lex_enumerate_late(data) ==
    LET filter_map(out, i) ==
            IF match_char(data[i]) = "None" THEN out
            ELSE Append(out, [code_p |-> Len(out), cmd |-> match_char(data[i])])
    IN  For(filter_map, <<>>, 1, Len(data))

\* the (code_p, BfCmd) pairs of the significant characters; code_p counts
\* every character of the source, from 0
lex(data) ==
    LET filter_map(out, i) ==
            IF match_char(data[i]) = "None" THEN out
            ELSE Append(out, [code_p |-> i - 1, cmd |-> match_char(data[i])])
    IN  For(filter_map, <<>>, 1, Len(data))

----------------------------------------------------------------------------
(* Tree IR: src/src/lib/optimized/mod.rs AST, DatamodKind *)

Loop(c, els, h) == [t |-> "Loop", cond_dp_offset |-> c, elements |-> els, known_to_be_nontrivial |-> h]
IfNonZero(c, els) == [t |-> "IfNonZero", cond_dp_offset |-> c, elements |-> els]
InfiniteLoopAst == [t |-> "InfiniteLoop"]
ShiftDataPtr(a) == [t |-> "ShiftDataPtr", amount |-> a]
AddKind(a) == [k |-> "AddData", amount |-> a]
SetKind(a) == [k |-> "SetData", amount |-> a]
ModData(kind, d) == [t |-> "ModData", kind |-> kind, dp_offset |-> d]
CombineData(s, d, m) == [t |-> "CombineData", source_dp_offset |-> s, target_dp_offset |-> d, source_amt_mult |-> m]
ReadByteAst(d) == [t |-> "ReadByte", dp_offset |-> d]
WriteByteAst(d) == [t |-> "WriteByte", dp_offset |-> d]
WriteConstAst(b) == [t |-> "WriteConst", out |-> b]
ShiftLoop(c, s, h) == [t |-> "ShiftLoop", cond_dp_offset |-> c, dp_shift |-> s, known_to_be_nontrivial |-> h]
AssertEqualsAst(d, v) == [t |-> "AssertEquals", dp_offset |-> d, val |-> v]

----------------------------------------------------------------------------
(* Tree-IR parser: src/src/lib/optimized/mod.rs ParseStack, parse *)

ParseStack_new == [top_tokens |-> <<>>, running_loops |-> <<>>]

start_loop(st, code_p) ==
    [st EXCEPT !.running_loops = Append(@, [code_p |-> code_p, body |-> <<>>])]

push_command(st, ast) ==
    IF st.running_loops = <<>>
    THEN [st EXCEPT !.top_tokens = Append(@, ast)]
    ELSE [st EXCEPT !.running_loops[Len(st.running_loops)].body = Append(@, ast)]

ParseOk(ast) == [ok |-> TRUE, ast |-> ast]
ParseErr(kind, code_p) == [ok |-> FALSE, kind |-> kind, code_p |-> code_p]

\* complete without its test of running_loops
complete_unchecked(st) == ParseOk(st.top_tokens)

complete(st) ==
    IF st.running_loops = <<>>
    THEN ParseOk(st.top_tokens)
    ELSE ParseErr("UnterminatedLoop", Last(st.running_loops).code_p)

parse_token(st, tok) ==
    CASE tok = "LoopStart" -> st
      [] tok = "ReadByte"  -> push_command(st, ReadByteAst(0))
      [] tok = "WriteByte" -> push_command(st, WriteByteAst(0))
      [] tok = "DecData"   -> push_command(st, ModData(AddKind(wrapping_sub(0, 1)), 0))
      [] tok = "IncData"   -> push_command(st, ModData(AddKind(1), 0))
      [] tok = "DecPtr"    -> push_command(st, ShiftDataPtr(-1))
      [] tok = "IncPtr"    -> push_command(st, ShiftDataPtr(1))

NoErr == [ok |-> TRUE]

\* one turn of parse's for loop; st.err is the Err the loop has returned
parse_one(st, code_p, tok) ==
    IF ~st.err.ok THEN st
    ELSE IF tok = "LoopEnd"
    THEN IF st.stack.running_loops = <<>>
         THEN [st EXCEPT !.err = ParseErr("EndLoopWithoutStart", code_p)]
         ELSE LET running_loop == Last(st.stack.running_loops).body
                  popped == [st.stack EXCEPT !.running_loops = Front(@)]
              IN  [st EXCEPT !.stack = push_command(popped, Loop(0, running_loop, FALSE))]
    ELSE IF tok = "LoopStart"
    THEN [st EXCEPT !.stack = start_loop(@, code_p)]
    ELSE [st EXCEPT !.stack = parse_token(@, tok)]

parse(data) ==
    LET toks == lex(data)
        body(st, i) == parse_one(st, toks[i].code_p, toks[i].cmd)
        end == For(body, [stack |-> ParseStack_new, err |-> NoErr], 1, Len(toks))
    IN  IF end.err.ok THEN complete(end.stack) ELSE end.err

----------------------------------------------------------------------------
(* Reference parser: src/src/lib.rs parse (exported as simple_parse) *)

SimpleOk(c) == [ok |-> TRUE, code |-> c]
SimpleErr == [ok |-> FALSE]

simple_instr(c, code_p) ==
    CASE c = ">" -> [t |-> "IncPtr", code_p |-> code_p]
      [] c = "<" -> [t |-> "DecPtr", code_p |-> code_p]
      [] c = "+" -> [t |-> "IncByte", code_p |-> code_p]
      [] c = "-" -> [t |-> "DecByte", code_p |-> code_p]
      [] c = "." -> [t |-> "WriteByte", code_p |-> code_p]
      [] c = "," -> [t |-> "ReadByte", code_p |-> code_p]

\* simple_parse_one that leaves end_ip of the LoopStart as it was pushed
simple_parse_one_unpatched(st, c, code_p) ==
    LET instr == st.instr
        loop_stack == st.loop_stack
        ip == Len(instr)
        fail == [st EXCEPT !.failed = TRUE]
    IN  IF st.failed THEN st
        ELSE IF c = "["
        THEN [st EXCEPT !.instr = Append(@, [t |-> "LoopStart", code_p |-> code_p, end_ip |-> 0]),
                        !.loop_stack = Append(@, ip)]
        ELSE IF c = "]"
        THEN IF loop_stack = <<>> THEN fail
             ELSE LET start_ip == Last(loop_stack)
                  IN  [st EXCEPT
                          !.instr = Append(instr, [t |-> "LoopEnd", code_p |-> code_p,
                                                   start_ip |-> start_ip]),
                          !.loop_stack = Front(@)]
        ELSE IF match_char(c) = "None" THEN st
        ELSE [st EXCEPT !.instr = Append(@, simple_instr(c, code_p))]

\* one turn of the for loop over the characters. instr holds the program so
\* far; instruction pointers count from 0, so the instruction with pointer p
\* is instr[p + 1] and ip = Len(instr); failed: the loop has returned Err(())
simple_parse_one(st, c, code_p) ==
    LET instr == st.instr
        loop_stack == st.loop_stack
        ip == Len(instr)
        fail == [st EXCEPT !.failed = TRUE]
    IN  IF st.failed THEN st
        ELSE IF c = "["
        THEN [st EXCEPT !.instr = Append(@, [t |-> "LoopStart", code_p |-> code_p, end_ip |-> 0]),
                        !.loop_stack = Append(@, ip)]
        ELSE IF c = "]"
        THEN IF loop_stack = <<>> THEN fail
             ELSE LET start_ip == Last(loop_stack)
                  IN  IF start_ip + 1 > Len(instr) THEN fail
                      ELSE IF instr[start_ip + 1].t # "LoopStart" THEN fail
                      ELSE [st EXCEPT
                              !.instr = Append([instr EXCEPT ![start_ip + 1].end_ip = ip],
                                               [t |-> "LoopEnd", code_p |-> code_p,
                                                start_ip |-> start_ip]),
                              !.loop_stack = Front(@)]
        ELSE IF match_char(c) = "None" THEN st
        ELSE [st EXCEPT !.instr = Append(@, simple_instr(c, code_p))]

simple_parse(input_str) ==
    LET body(st, i) == simple_parse_one(st, input_str[i], i - 1)
        end == For(body, [instr |-> <<>>, loop_stack |-> <<>>, failed |-> FALSE],
                   1, Len(input_str))
    IN  IF end.failed \/ end.loop_stack # <<>> THEN SimpleErr ELSE SimpleOk(end.instr)

----------------------------------------------------------------------------
(* Reorder pass: src/src/lib/optimized/optimization/mod.rs                  *)
(* sort_commands, sort_commands_step, maybe_swap, shift_command             *)

\* shift_command that moves the cond offset of a Loop and leaves its body
RECURSIVE shift_command_cond_only(_, _)
shift_command_cond_only(cmd, dp_shift) ==
    CASE cmd.t = "Loop" -> [cmd EXCEPT !.cond_dp_offset = @ + dp_shift]
      [] cmd.t = "ShiftLoop" -> [cmd EXCEPT !.cond_dp_offset = @ + dp_shift]
      [] cmd.t = "ShiftDataPtr" -> cmd
      [] cmd.t = "ModData" -> [cmd EXCEPT !.dp_offset = @ + dp_shift]
      [] cmd.t = "CombineData" ->
            [cmd EXCEPT !.source_dp_offset = @ + dp_shift, !.target_dp_offset = @ + dp_shift]
      [] cmd.t = "ReadByte" -> [cmd EXCEPT !.dp_offset = @ + dp_shift]
      [] cmd.t = "WriteByte" -> [cmd EXCEPT !.dp_offset = @ + dp_shift]
      [] cmd.t = "IfNonZero" ->
            [cmd EXCEPT !.cond_dp_offset = @ + dp_shift,
                        !.elements = [i \in 1 .. Len(@) |-> shift_command_cond_only(@[i], dp_shift)]]
      [] cmd.t = "WriteConst" -> cmd
      [] cmd.t = "InfiniteLoop" -> cmd
      [] cmd.t = "AssertEquals" -> [cmd EXCEPT !.dp_offset = @ + dp_shift]

RECURSIVE shift_command(_, _)
shift_command(cmd, dp_shift) ==
    CASE cmd.t = "Loop" ->
            [cmd EXCEPT !.cond_dp_offset = @ + dp_shift,
                        !.elements = [i \in 1 .. Len(@) |-> shift_command(@[i], dp_shift)]]
      [] cmd.t = "ShiftLoop" -> [cmd EXCEPT !.cond_dp_offset = @ + dp_shift]
      [] cmd.t = "ShiftDataPtr" -> cmd
      [] cmd.t = "ModData" -> [cmd EXCEPT !.dp_offset = @ + dp_shift]
      [] cmd.t = "CombineData" ->
            [cmd EXCEPT !.source_dp_offset = @ + dp_shift, !.target_dp_offset = @ + dp_shift]
      [] cmd.t = "ReadByte" -> [cmd EXCEPT !.dp_offset = @ + dp_shift]
      [] cmd.t = "WriteByte" -> [cmd EXCEPT !.dp_offset = @ + dp_shift]
      [] cmd.t = "IfNonZero" ->
            [cmd EXCEPT !.cond_dp_offset = @ + dp_shift,
                        !.elements = [i \in 1 .. Len(@) |-> shift_command(@[i], dp_shift)]]
      [] cmd.t = "WriteConst" -> cmd
      [] cmd.t = "InfiniteLoop" -> cmd
      [] cmd.t = "AssertEquals" -> [cmd EXCEPT !.dp_offset = @ + dp_shift]

\* swap_wanted with one more arm: a Write in front of a Read of another cell
swap_wanted_io(first, second) ==
    CASE first.t = "ModData" ->
            CASE second.t = "InfiniteLoop" -> TRUE
              [] second.t = "ModData" -> first.dp_offset > second.dp_offset
              [] second.t = "ReadByte" -> second.dp_offset # first.dp_offset
              [] second.t = "WriteByte" -> second.dp_offset # first.dp_offset
              [] OTHER -> FALSE
      [] first.t = "CombineData" ->
            CASE second.t = "InfiniteLoop" -> TRUE
              [] second.t = "CombineData" ->
                    IF first.source_dp_offset = second.source_dp_offset
                    THEN first.target_dp_offset > second.target_dp_offset
                    ELSE IF first.target_dp_offset = second.target_dp_offset
                    THEN first.source_dp_offset > second.source_dp_offset
                    ELSE IF /\ first.source_dp_offset # second.target_dp_offset
                            /\ first.target_dp_offset # second.source_dp_offset
                    THEN first.source_dp_offset > second.source_dp_offset
                    ELSE FALSE
              [] second.t = "ModData" -> first.source_dp_offset # second.dp_offset
              [] second.t = "ReadByte" ->
                    /\ second.dp_offset # first.source_dp_offset
                    /\ second.dp_offset # first.target_dp_offset
              [] second.t = "WriteByte" ->
                    /\ second.dp_offset # first.source_dp_offset
                    /\ second.dp_offset # first.target_dp_offset
              [] OTHER -> FALSE
      [] first.t = "ShiftDataPtr" -> second.t # "ShiftDataPtr"
      [] first.t = "WriteByte" ->
            second.t = "ReadByte" /\ second.dp_offset # first.dp_offset
      [] OTHER -> FALSE

\* the value of maybe_swap's local `swap` once the match on (first, second) is done
swap_wanted(first, second) ==
    CASE first.t = "ModData" ->
            CASE second.t = "InfiniteLoop" -> TRUE
              [] second.t = "ModData" -> first.dp_offset > second.dp_offset
              [] second.t = "ReadByte" -> second.dp_offset # first.dp_offset
              [] second.t = "WriteByte" -> second.dp_offset # first.dp_offset
              [] OTHER -> FALSE
      [] first.t = "CombineData" ->
            CASE second.t = "InfiniteLoop" -> TRUE
              [] second.t = "CombineData" ->
                    IF first.source_dp_offset = second.source_dp_offset
                    THEN first.target_dp_offset > second.target_dp_offset
                    ELSE IF first.target_dp_offset = second.target_dp_offset
                    THEN first.source_dp_offset > second.source_dp_offset
                    ELSE IF /\ first.source_dp_offset # second.target_dp_offset
                            /\ first.target_dp_offset # second.source_dp_offset
                    THEN first.source_dp_offset > second.source_dp_offset
                    ELSE FALSE
              [] second.t = "ModData" -> first.source_dp_offset # second.dp_offset
              [] second.t = "ReadByte" ->
                    /\ second.dp_offset # first.source_dp_offset
                    /\ second.dp_offset # first.target_dp_offset
              [] second.t = "WriteByte" ->
                    /\ second.dp_offset # first.source_dp_offset
                    /\ second.dp_offset # first.target_dp_offset
              [] OTHER -> FALSE
      [] first.t = "ShiftDataPtr" -> second.t # "ShiftDataPtr"
      [] OTHER -> FALSE

\* the pair after maybe_swap, and the count it returns
maybe_swap(first, second) ==
    LET shifted == IF first.t = "ShiftDataPtr" /\ second.t # "ShiftDataPtr"
                   THEN shift_command(second, first.amount)
                   ELSE second
    IN  IF swap_wanted(first, second)
        THEN [a |-> shifted, b |-> first, n |-> 1]
        ELSE [a |-> first, b |-> second, n |-> 0]

\* ghost: the record of one swap, the pair as it was and as it is left
SwapOf(first, second, r) == [first |-> first, second |-> second, a |-> r.a, b |-> r.b]

\* one iteration of the bubble sort over the whole slice: maybe_swap on
\* each pair of neighbours in turn; swapped is the ghost set of the swaps made
sort_commands_step(cs) ==
    LET body(st, i) ==
            LET r == maybe_swap(st.cmds[i], st.cmds[i + 1])
            IN  [cmds |-> [st.cmds EXCEPT ![i] = r.a, ![i + 1] = r.b], n |-> st.n + r.n,
                 swapped |-> IF r.n = 0 THEN st.swapped
                             ELSE st.swapped \cup {SwapOf(st.cmds[i], st.cmds[i + 1], r)}]
    IN  IF Len(cs) < 2 THEN [cmds |-> cs, n |-> 0, swapped |-> {}]
        ELSE For(body, [cmds |-> cs, n |-> 0, swapped |-> {}], 1, Len(cs) - 1)

\* sort_commands' while loop cut to its first turn
sort_slices_once(cs, slice_len, total_swaps, swapped) ==
    IF slice_len < 2 THEN [cmds |-> cs, n |-> total_swaps, swapped |-> swapped]
    ELSE LET r == sort_commands_step(SubSeq(cs, 1, slice_len))
         IN  [cmds |-> r.cmds \o SubSeq(cs, slice_len + 1, Len(cs)),
              n |-> total_swaps + r.n, swapped |-> swapped \cup r.swapped]

RECURSIVE sort_slices(_, _, _, _)
sort_slices(cs, slice_len, total_swaps, swapped) ==
    IF slice_len < 2 THEN [cmds |-> cs, n |-> total_swaps, swapped |-> swapped]
    ELSE LET r == sort_commands_step(SubSeq(cs, 1, slice_len))
         IN  IF r.n = 0 THEN [cmds |-> cs, n |-> total_swaps, swapped |-> swapped]
             ELSE sort_slices(r.cmds \o SubSeq(cs, slice_len + 1, Len(cs)),
                              slice_len - 1, total_swaps + r.n, swapped \cup r.swapped)

\* the sorted sequence and the number of swaps counted; the swaps made inside
\* Loop and IfNonZero bodies are made but their count is dropped
RECURSIVE sort_commands(_)
sort_commands(cs) ==
    LET sorted == [i \in 1 .. Len(cs) |->
                    IF cs[i].t \in {"Loop", "IfNonZero"}
                    THEN sort_commands(cs[i].elements)
                    ELSE [cmds |-> <<>>, n |-> 0, swapped |-> {}]]
        inner == [i \in 1 .. Len(cs) |->
                    IF cs[i].t \in {"Loop", "IfNonZero"}
                    THEN [cs[i] EXCEPT !.elements = sorted[i].cmds]
                    ELSE cs[i]]
    IN  sort_slices(inner, Len(inner), 0, UNION {sorted[i].swapped : i \in 1 .. Len(cs)})

----------------------------------------------------------------------------
(* Collapse pass: collapse_consecutive *)

NoAcc == [t |-> "None"]

\* collapse_one where the second of two Adds replaces the first
collapse_one_last_add(st, cmd) ==
    LET acc == st.acc
        keep == [out |-> Append(st.out, acc), acc |-> cmd, n |-> st.n]
        swallowed == [out |-> st.out, acc |-> InfiniteLoopAst, n |-> st.n + 1]
    IN  CASE acc.t = "None" -> [out |-> st.out, acc |-> cmd, n |-> st.n]
          [] acc.t = "ModData" ->
                CASE cmd.t = "ModData" ->
                        IF acc.dp_offset = cmd.dp_offset
                        THEN LET out_kind ==
                                    CASE acc.kind.k = "AddData" /\ cmd.kind.k = "AddData" ->
                                            AddKind(cmd.kind.amount)
                                      [] acc.kind.k = "SetData" /\ cmd.kind.k = "AddData" ->
                                            SetKind(wrapping_add(acc.kind.amount, cmd.kind.amount))
                                      [] OTHER -> SetKind(cmd.kind.amount)
                             IN  [out |-> st.out, acc |-> ModData(out_kind, acc.dp_offset), n |-> st.n + 1]
                        ELSE keep
                  [] cmd.t = "ReadByte" /\ cmd.dp_offset = acc.dp_offset ->
                        [out |-> st.out, acc |-> cmd, n |-> st.n + 1]
                  [] cmd.t = "InfiniteLoop" -> swallowed
                  [] OTHER -> keep
          [] acc.t = "ShiftDataPtr" ->
                CASE cmd.t = "ShiftDataPtr" ->
                        LET new_amount == acc.amount + cmd.amount
                        IN  IF new_amount = 0
                            THEN [out |-> st.out, acc |-> NoAcc, n |-> st.n + 2]
                            ELSE [out |-> st.out, acc |-> ShiftDataPtr(new_amount), n |-> st.n + 1]
                  [] cmd.t = "InfiniteLoop" -> swallowed
                  [] OTHER -> keep
          [] acc.t = "CombineData" ->
                CASE cmd.t = "CombineData" ->
                        IF /\ acc.source_dp_offset = cmd.source_dp_offset
                           /\ acc.target_dp_offset = cmd.target_dp_offset
                        THEN [out |-> st.out,
                              acc |-> CombineData(acc.source_dp_offset, acc.target_dp_offset,
                                          wrapping_add(acc.source_amt_mult, cmd.source_amt_mult)),
                              n |-> st.n]
                        ELSE keep
                  [] cmd.t = "InfiniteLoop" -> swallowed
                  [] OTHER -> keep
          [] acc.t = "InfiniteLoop" -> [out |-> st.out, acc |-> acc, n |-> st.n + 1]
          [] acc.t \in {"Loop", "ShiftLoop"} ->
                IF cmd.t \in {"Loop", "ShiftLoop"} /\ cmd.cond_dp_offset = acc.cond_dp_offset
                THEN [out |-> st.out, acc |-> acc, n |-> st.n + 1]
                ELSE keep
          [] OTHER -> keep

\* one turn of the second for loop: st = [out, acc, n], cmd the next command
collapse_one(st, cmd) ==
    LET acc == st.acc
        keep == [out |-> Append(st.out, acc), acc |-> cmd, n |-> st.n]
        swallowed == [out |-> st.out, acc |-> InfiniteLoopAst, n |-> st.n + 1]
    IN  CASE acc.t = "None" -> [out |-> st.out, acc |-> cmd, n |-> st.n]
          [] acc.t = "ModData" ->
                CASE cmd.t = "ModData" ->
                        IF acc.dp_offset = cmd.dp_offset
                        THEN LET out_kind ==
                                    CASE acc.kind.k = "AddData" /\ cmd.kind.k = "AddData" ->
                                            AddKind(wrapping_add(acc.kind.amount, cmd.kind.amount))
                                      [] acc.kind.k = "SetData" /\ cmd.kind.k = "AddData" ->
                                            SetKind(wrapping_add(acc.kind.amount, cmd.kind.amount))
                                      [] OTHER -> SetKind(cmd.kind.amount)
                             IN  [out |-> st.out, acc |-> ModData(out_kind, acc.dp_offset), n |-> st.n + 1]
                        ELSE keep
                  [] cmd.t = "ReadByte" /\ cmd.dp_offset = acc.dp_offset ->
                        [out |-> st.out, acc |-> cmd, n |-> st.n + 1]
                  [] cmd.t = "InfiniteLoop" -> swallowed
                  [] OTHER -> keep
          [] acc.t = "ShiftDataPtr" ->
                CASE cmd.t = "ShiftDataPtr" ->
                        LET new_amount == acc.amount + cmd.amount
                        IN  IF new_amount = 0
                            THEN [out |-> st.out, acc |-> NoAcc, n |-> st.n + 2]
                            ELSE [out |-> st.out, acc |-> ShiftDataPtr(new_amount), n |-> st.n + 1]
                  [] cmd.t = "InfiniteLoop" -> swallowed
                  [] OTHER -> keep
          [] acc.t = "CombineData" ->
                CASE cmd.t = "CombineData" ->
                        IF /\ acc.source_dp_offset = cmd.source_dp_offset
                           /\ acc.target_dp_offset = cmd.target_dp_offset
                        THEN [out |-> st.out,
                              acc |-> CombineData(acc.source_dp_offset, acc.target_dp_offset,
                                          wrapping_add(acc.source_amt_mult, cmd.source_amt_mult)),
                              n |-> st.n]
                        ELSE keep
                  [] cmd.t = "InfiniteLoop" -> swallowed
                  [] OTHER -> keep
          [] acc.t = "InfiniteLoop" -> [out |-> st.out, acc |-> acc, n |-> st.n + 1]
          [] acc.t \in {"Loop", "ShiftLoop"} ->
                IF cmd.t \in {"Loop", "ShiftLoop"} /\ cmd.cond_dp_offset = acc.cond_dp_offset
                THEN [out |-> st.out, acc |-> acc, n |-> st.n + 1]
                ELSE keep
          [] OTHER -> keep

\* the second for loop from the state st, and the push of the last acc
collapse_fold(old, st) ==
    LET body(s, i) == collapse_one(s, old[i])
        end == For(body, st, 1, Len(old))
    IN  [cmds |-> IF end.acc.t = "None" THEN end.out ELSE Append(end.out, end.acc),
         n |-> end.n]

\* the sum of the counts in rs
sum_n(rs) ==
    LET body(n, i) == n + rs[i].n
    IN  For(body, 0, 1, Len(rs))

\* the collapsed sequence and the number of collapses counted
RECURSIVE collapse_consecutive(_)
collapse_consecutive(cs) ==
    IF cs = <<>> THEN [cmds |-> <<>>, n |-> 0]
    ELSE LET inner == [i \in 1 .. Len(cs) |->
                         IF cs[i].t = "Loop"
                         THEN collapse_consecutive(cs[i].elements)
                         ELSE [cmds |-> <<>>, n |-> 0]]
             old == [i \in 1 .. Len(cs) |->
                         IF cs[i].t = "Loop"
                         THEN [cs[i] EXCEPT !.elements = inner[i].cmds]
                         ELSE cs[i]]
         IN  collapse_fold(old, [out |-> <<>>, acc |-> NoAcc, n |-> sum_n(inner)])

----------------------------------------------------------------------------
(* Abstract state of the simulator: mod sim_state *)

\* DataState: Known(b) is the byte b itself
Unknown == -1
UnknownNonzero == -2
Known(b) == b
IsKnown(v) == v >= 0

SimState_new(def_value) == [data |-> <<>>, def_value |-> def_value, dp |-> 0, wipes |-> 0]

\* the branch state and the BranchMarker
make_branch(self) == [branch |-> self, marker |-> self.wipes]

clear_knowledge(self) ==
    [data |-> <<>>, def_value |-> Unknown, dp |-> 0, wipes |-> self.wipes + 1]

merge_divergent(self, branch, wipes_at_split) ==
    IF self.wipes # wipes_at_split \/ branch.wipes # wipes_at_split
    THEN clear_knowledge(self)
    ELSE IF self.def_value # branch.def_value THEN clear_knowledge(self)
    ELSE IF self.dp # branch.dp THEN clear_knowledge(self)
    ELSE LET kept == {k \in DOMAIN self.data :
                         k \in DOMAIN branch.data /\ branch.data[k] = self.data[k]}
         IN  [self EXCEPT !.data = [k \in kept |-> self.data[k]]]

get_data(self, ind) ==
    LET at == self.dp + ind
    IN  IF at \in DOMAIN self.data THEN self.data[at] ELSE self.def_value

set_data(self, ind, val) ==
    LET at == self.dp + ind
    IN  [self EXCEPT !.data = [k \in (DOMAIN self.data) \cup {at} |->
                                  IF k = at THEN val ELSE self.data[k]]]

shift_ptr(self, shift) == [self EXCEPT !.dp = @ + shift]

process_mod_data(self, kind, dp_offset) ==
    IF kind.k = "SetData" THEN set_data(self, dp_offset, Known(kind.amount))
    ELSE IF kind.amount = 0 THEN self
    ELSE IF IsKnown(get_data(self, dp_offset))
    THEN set_data(self, dp_offset, Known(wrapping_add(get_data(self, dp_offset), kind.amount)))
    ELSE set_data(self, dp_offset, Unknown)

process_combine_data(self, source_dp_offset, target_dp_offset, source_amt_mult) ==
    LET a == get_data(self, source_dp_offset)
        b == get_data(self, target_dp_offset)
    IN  IF source_amt_mult = 0 THEN self
        ELSE IF a = Known(0) THEN self
        ELSE IF IsKnown(a) /\ IsKnown(b)
        THEN set_data(self, target_dp_offset,
                      Known(wrapping_add(b, wrapping_mul(a, source_amt_mult))))
        ELSE set_data(self, target_dp_offset, Unknown)

----------------------------------------------------------------------------
(* Data usage of a subtree: mod data_usage, track_usage *)

DpLost == [lost |-> TRUE]
DataTracked(dp_shift, data_mods) == [lost |-> FALSE, dp_shift |-> dp_shift, data_mods |-> data_mods]
DataUsageTracker_new == DataTracked(0, {})

tracker_shift(tr, shift_amount) ==
    IF tr.lost THEN tr
    ELSE DataTracked(tr.dp_shift + shift_amount, {dp + shift_amount : dp \in tr.data_mods})

data_used(tr, dp_offset) ==
    IF tr.lost THEN tr ELSE [tr EXCEPT !.data_mods = @ \cup {dp_offset}]

RECURSIVE track_usage_step(_, _)
RECURSIVE track_usage_seq(_, _, _)
track_usage_seq(elements, i, tr) ==
    IF i > Len(elements) THEN tr
    ELSE track_usage_seq(elements, i + 1, track_usage_step(elements[i], tr))

\* track_usage_step that marks the source of a Combine, not its target
track_usage_step_source(cmd, tracker) ==
    CASE cmd.t \in {"Loop", "IfNonZero"} ->
            LET t1 == data_used(tracker, cmd.cond_dp_offset)
                inside == track_usage_seq(cmd.elements, 1, DataUsageTracker_new)
            IN  IF inside.lost THEN DpLost
                ELSE LET t2 == IF inside.dp_shift # 0 THEN DpLost ELSE t1
                     IN  IF t2.lost THEN t2
                         ELSE [t2 EXCEPT !.data_mods = @ \cup inside.data_mods]
      [] cmd.t = "ShiftLoop" -> DpLost
      [] cmd.t = "ShiftDataPtr" -> tracker_shift(tracker, cmd.amount)
      [] cmd.t = "ModData" -> data_used(tracker, cmd.dp_offset)
      [] cmd.t = "CombineData" -> data_used(tracker, cmd.source_dp_offset)
      [] cmd.t = "ReadByte" -> data_used(tracker, cmd.dp_offset)
      [] cmd.t = "WriteByte" -> data_used(tracker, cmd.dp_offset)
      [] cmd.t = "InfiniteLoop" -> tracker
      [] cmd.t = "WriteConst" -> tracker
      [] cmd.t = "AssertEquals" -> data_used(tracker, cmd.dp_offset)

track_usage_step(cmd, tracker) ==
    CASE cmd.t \in {"Loop", "IfNonZero"} ->
            LET t1 == data_used(tracker, cmd.cond_dp_offset)
                inside == track_usage_seq(cmd.elements, 1, DataUsageTracker_new)
            IN  IF inside.lost THEN DpLost
                ELSE LET t2 == IF inside.dp_shift # 0 THEN DpLost ELSE t1
                     IN  IF t2.lost THEN t2
                         ELSE [t2 EXCEPT !.data_mods = @ \cup inside.data_mods]
      [] cmd.t = "ShiftLoop" -> DpLost
      [] cmd.t = "ShiftDataPtr" -> tracker_shift(tracker, cmd.amount)
      [] cmd.t = "ModData" -> data_used(tracker, cmd.dp_offset)
      [] cmd.t = "CombineData" -> data_used(tracker, cmd.target_dp_offset)
      [] cmd.t = "ReadByte" -> data_used(tracker, cmd.dp_offset)
      [] cmd.t = "WriteByte" -> data_used(tracker, cmd.dp_offset)
      [] cmd.t = "InfiniteLoop" -> tracker
      [] cmd.t = "WriteConst" -> tracker
      [] cmd.t = "AssertEquals" -> data_used(tracker, cmd.dp_offset)

track_usage(cmd) == track_usage_step(cmd, DataUsageTracker_new)

RECURSIVE set_all_unknown(_, _)
set_all_unknown(state, mods) ==
    IF mods = {} THEN state
    ELSE LET m == CHOOSE x \in mods : TRUE
         IN  set_all_unknown(set_data(state, m, Unknown), mods \ {m})

----------------------------------------------------------------------------
(* Simulation pass: run_simulation *)

\* the Loop arm with the hint taken from this run alone
sim_loop_rehint(acc, cmd) ==
    LET state == acc.state
        cond == get_data(state, cmd.cond_dp_offset)
        keep_loop == cond # Known(0)
        hinted == cond # Known(0) /\ cond # Unknown /\ ~cmd.known_to_be_nontrivial
        new_cmd == [cmd EXCEPT !.known_to_be_nontrivial = hinted]
        usage == track_usage(new_cmd)
        after == IF (~usage.lost) /\ usage.dp_shift = 0
                 THEN set_all_unknown(state, usage.data_mods)
                 ELSE clear_knowledge(state)
    IN  IF keep_loop
        THEN [out |-> Append(acc.out, new_cmd),
              state |-> set_data(after, cmd.cond_dp_offset, Known(0)),
              n |-> acc.n + (IF hinted THEN 1 ELSE 0)]
        ELSE [out |-> acc.out, state |-> set_data(state, cmd.cond_dp_offset, Known(0)),
              n |-> acc.n + 1]

\* run_simulation_ctx's arm for a Loop: acc = [out, state, n]
sim_loop(acc, cmd) ==
    LET state == acc.state
        cond == get_data(state, cmd.cond_dp_offset)
        keep_loop == cond # Known(0)
        hinted == cond # Known(0) /\ cond # Unknown /\ ~cmd.known_to_be_nontrivial
        new_cmd == IF hinted THEN [cmd EXCEPT !.known_to_be_nontrivial = TRUE] ELSE cmd
        usage == track_usage(new_cmd)
        after == IF (~usage.lost) /\ usage.dp_shift = 0
                 THEN set_all_unknown(state, usage.data_mods)
                 ELSE clear_knowledge(state)
    IN  IF keep_loop
        THEN [out |-> Append(acc.out, new_cmd),
              state |-> set_data(after, cmd.cond_dp_offset, Known(0)),
              n |-> acc.n + (IF hinted THEN 1 ELSE 0)]
        ELSE [out |-> acc.out, state |-> set_data(state, cmd.cond_dp_offset, Known(0)),
              n |-> acc.n + 1]

\* one turn of run_simulation_ctx's for loop: acc = [out, state, n]
sim_one(acc, cmd) ==
    LET state == acc.state
        push(c, st, k) == [out |-> Append(acc.out, c), state |-> st, n |-> acc.n + k]
        drop(st, k) == [out |-> acc.out, state |-> st, n |-> acc.n + k]
    IN  CASE cmd.t = "IfNonZero" ->
                LET cond == get_data(state, cmd.cond_dp_offset)
                    usage == track_usage(cmd)
                IN  IF cond = Unknown
                    THEN IF (~usage.lost) /\ usage.dp_shift = 0
                         THEN push(cmd, set_all_unknown(state, usage.data_mods), 0)
                         ELSE push(cmd, clear_knowledge(state), 0)
                    ELSE IF cond = Known(0) THEN drop(state, 1)
                    ELSE [out |-> acc.out \o cmd.elements,
                          state |-> clear_knowledge(state), n |-> acc.n + 1]
          [] cmd.t = "ShiftDataPtr" -> push(cmd, shift_ptr(state, cmd.amount), 0)
          [] cmd.t = "ShiftLoop" -> push(cmd, set_data(clear_knowledge(state), 0, Known(0)), 0)
          [] cmd.t = "Loop" -> sim_loop(acc, cmd)
          [] cmd.t = "ReadByte" -> push(cmd, set_data(state, cmd.dp_offset, Unknown), 0)
          [] cmd.t = "WriteByte" ->
                IF IsKnown(get_data(state, cmd.dp_offset))
                THEN push(WriteConstAst(get_data(state, cmd.dp_offset)), state, 1)
                ELSE push(cmd, state, 0)
          [] cmd.t = "WriteConst" -> push(cmd, state, 0)
          [] cmd.t = "CombineData" ->
                LET old == get_data(state, cmd.source_dp_offset)
                    next == process_combine_data(state, cmd.source_dp_offset,
                                                 cmd.target_dp_offset, cmd.source_amt_mult)
                    end_data == get_data(next, cmd.target_dp_offset)
                IN  IF IsKnown(old)
                    THEN push(ModData(AddKind(wrapping_mul(cmd.source_amt_mult, old)),
                                      cmd.target_dp_offset), next, 1)
                    ELSE IF IsKnown(end_data)
                    THEN push(ModData(SetKind(end_data), cmd.target_dp_offset), next, 1)
                    ELSE push(cmd, next, 0)
          [] cmd.t = "ModData" ->
                LET start_data == get_data(state, cmd.dp_offset)
                    next == process_mod_data(state, cmd.kind, cmd.dp_offset)
                    end_data == get_data(next, cmd.dp_offset)
                IN  IF IsKnown(end_data)
                    THEN IF start_data = end_data THEN drop(next, 1)
                         ELSE push(ModData(SetKind(end_data), cmd.dp_offset), next,
                                   IF cmd.kind.k = "AddData" THEN 1 ELSE 0)
                    ELSE push(cmd, next, 0)
          [] OTHER -> push(cmd, clear_knowledge(state), 0)

\* run_simulation_ctx's for loop from the command at i on
run_simulation_ctx(old, i, acc) ==
    LET body(a, j) == sim_one(a, old[j])
    IN  For(body, acc, i, Len(old))

\* the rewritten sequence and the number of changes counted
run_simulation(cs) ==
    LET r == run_simulation_ctx(cs, 1, [out |-> <<>>, state |-> SimState_new(Known(0)), n |-> 0])
    IN  [cmds |-> r.out, n |-> r.n]

----------------------------------------------------------------------------
(* One-step-loop pass: one_step_loops *)

\* the rewritten sequence, the state after it and the number of changes counted
RECURSIVE one_step_loops_ctx(_, _, _)

\* one_step_one that also rewrites a Loop whose cond cell is Unknown after
\* the body
one_step_one_eager(acc, cmd) ==
         LET state == acc.state
             push(c, st, k) == [out |-> Append(acc.out, c), state |-> st, n |-> acc.n + k]
             next ==
               CASE cmd.t = "Loop" ->
                    LET inner_state == set_data(SimState_new(Unknown), cmd.cond_dp_offset, UnknownNonzero)
                        r == one_step_loops_ctx(cmd.elements, 1,
                                                [out |-> <<>>, state |-> inner_state, n |-> 0])
                        new_elements == Append(r.out, AssertEqualsAst(cmd.cond_dp_offset, 0))
                        after == set_data(clear_knowledge(state), cmd.cond_dp_offset, Known(0))
                    IN  IF get_data(r.state, cmd.cond_dp_offset) \in {Known(0), Unknown}
                        THEN IF cmd.known_to_be_nontrivial
                             THEN [out |-> acc.out \o new_elements, state |-> after,
                                   n |-> acc.n + r.n + 1]
                             ELSE push(IfNonZero(cmd.cond_dp_offset, new_elements), after, r.n + 1)
                        ELSE push([cmd EXCEPT !.elements = r.out], after, r.n)
                 [] cmd.t = "IfNonZero" ->
                    LET cond == get_data(state, cmd.cond_dp_offset)
                    IN  IF cond = Known(0)
                        THEN [out |-> acc.out, state |-> state, n |-> acc.n + 1 + Len(cmd.elements)]
                        ELSE IF cond # Unknown
                        THEN LET r == one_step_loops_ctx(cmd.elements, 1,
                                          [out |-> <<>>, state |-> state, n |-> 0])
                             IN  [out |-> acc.out \o r.out, state |-> r.state,
                                  n |-> acc.n + 1 + r.n]
                        ELSE LET b == make_branch(state)
                                 branch_state == set_data(b.branch, cmd.cond_dp_offset, UnknownNonzero)
                                 r == one_step_loops_ctx(cmd.elements, 1,
                                          [out |-> <<>>, state |-> branch_state, n |-> 0])
                             IN  push(IfNonZero(cmd.cond_dp_offset, r.out),
                                      merge_divergent(state, r.state, b.marker), r.n)
                 [] cmd.t = "ShiftLoop" ->
                    push(cmd, set_data(clear_knowledge(state), cmd.cond_dp_offset, Known(0)), 0)
                 [] cmd.t = "InfiniteLoop" -> push(cmd, state, 0)
                 [] cmd.t = "ShiftDataPtr" -> push(cmd, shift_ptr(state, cmd.amount), 0)
                 [] cmd.t = "ModData" -> push(cmd, process_mod_data(state, cmd.kind, cmd.dp_offset), 0)
                 [] cmd.t = "CombineData" ->
                    push(cmd, process_combine_data(state, cmd.source_dp_offset,
                                                   cmd.target_dp_offset, cmd.source_amt_mult), 0)
                 [] cmd.t = "ReadByte" -> push(cmd, set_data(state, cmd.dp_offset, Unknown), 0)
                 [] cmd.t = "WriteByte" -> push(cmd, state, 0)
                 [] cmd.t = "WriteConst" -> push(cmd, state, 0)
                 [] cmd.t = "AssertEquals" -> push(cmd, set_data(state, cmd.dp_offset, Known(cmd.val)), 0)
         IN  next

\* one turn of one_step_loops_ctx's for loop: acc = [out, state, n]
one_step_one(acc, cmd) ==
         LET state == acc.state
             push(c, st, k) == [out |-> Append(acc.out, c), state |-> st, n |-> acc.n + k]
             next ==
               CASE cmd.t = "Loop" ->
                    LET inner_state == set_data(SimState_new(Unknown), cmd.cond_dp_offset, UnknownNonzero)
                        r == one_step_loops_ctx(cmd.elements, 1,
                                                [out |-> <<>>, state |-> inner_state, n |-> 0])
                        new_elements == Append(r.out, AssertEqualsAst(cmd.cond_dp_offset, 0))
                        after == set_data(clear_knowledge(state), cmd.cond_dp_offset, Known(0))
                    IN  IF get_data(r.state, cmd.cond_dp_offset) = Known(0)
                        THEN IF cmd.known_to_be_nontrivial
                             THEN [out |-> acc.out \o new_elements, state |-> after,
                                   n |-> acc.n + r.n + 1]
                             ELSE push(IfNonZero(cmd.cond_dp_offset, new_elements), after, r.n + 1)
                        ELSE push([cmd EXCEPT !.elements = r.out], after, r.n)
                 [] cmd.t = "IfNonZero" ->
                    LET cond == get_data(state, cmd.cond_dp_offset)
                    IN  IF cond = Known(0)
                        THEN [out |-> acc.out, state |-> state, n |-> acc.n + 1 + Len(cmd.elements)]
                        ELSE IF cond # Unknown
                        THEN LET r == one_step_loops_ctx(cmd.elements, 1,
                                          [out |-> <<>>, state |-> state, n |-> 0])
                             IN  [out |-> acc.out \o r.out, state |-> r.state,
                                  n |-> acc.n + 1 + r.n]
                        ELSE LET b == make_branch(state)
                                 branch_state == set_data(b.branch, cmd.cond_dp_offset, UnknownNonzero)
                                 r == one_step_loops_ctx(cmd.elements, 1,
                                          [out |-> <<>>, state |-> branch_state, n |-> 0])
                             IN  push(IfNonZero(cmd.cond_dp_offset, r.out),
                                      merge_divergent(state, r.state, b.marker), r.n)
                 [] cmd.t = "ShiftLoop" ->
                    push(cmd, set_data(clear_knowledge(state), cmd.cond_dp_offset, Known(0)), 0)
                 [] cmd.t = "InfiniteLoop" -> push(cmd, state, 0)
                 [] cmd.t = "ShiftDataPtr" -> push(cmd, shift_ptr(state, cmd.amount), 0)
                 [] cmd.t = "ModData" -> push(cmd, process_mod_data(state, cmd.kind, cmd.dp_offset), 0)
                 [] cmd.t = "CombineData" ->
                    push(cmd, process_combine_data(state, cmd.source_dp_offset,
                                                   cmd.target_dp_offset, cmd.source_amt_mult), 0)
                 [] cmd.t = "ReadByte" -> push(cmd, set_data(state, cmd.dp_offset, Unknown), 0)
                 [] cmd.t = "WriteByte" -> push(cmd, state, 0)
                 [] cmd.t = "WriteConst" -> push(cmd, state, 0)
                 [] cmd.t = "AssertEquals" -> push(cmd, set_data(state, cmd.dp_offset, Known(cmd.val)), 0)
         IN  next

one_step_loops_ctx(old, i, acc) ==
    LET body(a, j) == one_step_one(a, old[j])
    IN  For(body, acc, i, Len(old))

one_step_loops(cs) ==
    LET r == one_step_loops_ctx(cs, 1, [out |-> <<>>, state |-> SimState_new(Known(0)), n |-> 0])
    IN  [cmds |-> r.out, n |-> r.n]

----------------------------------------------------------------------------
(* Loop-shape recognizer: collapse_kinds, const_loop_remove *)

\* the result of "a, then b" on the same offset
collapse_kinds(a, b) ==
    IF b.k = "SetData" THEN SetKind(b.amount)
    ELSE IF a.k = "SetData" THEN SetKind(wrapping_add(a.amount, b.amount))
    ELSE AddKind(wrapping_add(a.amount, b.amount))

\* only_data: Ok(offsets) or Err(reason); the reason is never read by the caller
RECURSIVE only_data_from(_, _, _, _)
only_data_from(cs, i, offsets, err) ==
    IF i > Len(cs) THEN [ok |-> ~err, offsets |-> offsets]
    ELSE LET cmd == cs[i]
         IN  IF cmd.t = "ModData"
             THEN LET old == IF cmd.dp_offset \in DOMAIN offsets
                             THEN offsets[cmd.dp_offset] ELSE AddKind(0)
                      val == collapse_kinds(old, cmd.kind)
                      dom == IF val = AddKind(0)
                             THEN (DOMAIN offsets) \ {cmd.dp_offset}
                             ELSE (DOMAIN offsets) \cup {cmd.dp_offset}
                  IN  only_data_from(cs, i + 1,
                          [k \in dom |-> IF k = cmd.dp_offset THEN val ELSE offsets[k]], err)
             ELSE IF cmd.t = "AssertEquals" THEN only_data_from(cs, i + 1, offsets, err)
             ELSE only_data_from(cs, i + 1, offsets, TRUE)

only_data(cs) == only_data_from(cs, 1, <<>>, FALSE)

Min(S) == CHOOSE x \in S : \A y \in S : x <= y
Max(S) == CHOOSE x \in S : \A y \in S : x >= y

\* the keys of a HashMap in the order one iteration visits them: the order is
\* not fixed by the program, asc picks one of two
RECURSIVE iter_order(_, _)
iter_order(keys, asc) ==
    IF keys = {} THEN <<>>
    ELSE LET k == IF asc THEN Min(keys) ELSE Max(keys)
         IN  <<k>> \o iter_order(keys \ {k}, asc)

\* const_loop_ok with the two repetition factors exchanged
const_loop_ok_flipped(cmd, offsets, asc) ==
    LET cond_dp_offset == cmd.cond_dp_offset
        hint == cmd.known_to_be_nontrivial
        il == IF cond_dp_offset \in DOMAIN offsets THEN <<>>
              ELSE IF hint THEN <<InfiniteLoopAst>>
              ELSE <<IfNonZero(cond_dp_offset, <<InfiniteLoopAst>>)>>
        set0 == ModData(SetKind(0), cond_dp_offset)
        guarded(loop_adds) == IF hint THEN loop_adds ELSE <<IfNonZero(cond_dp_offset, loop_adds)>>
    IN  IF Cardinality(DOMAIN offsets) = 1
        THEN [out |-> Append(il, set0), n |-> 1, panic |-> FALSE]
        ELSE IF cond_dp_offset \notin DOMAIN offsets
        \* offsets.remove(&cond_dp_offset).unwrap() on None
        THEN [out |-> il, n |-> 0, panic |-> TRUE]
        ELSE LET zero_offset == offsets[cond_dp_offset]
                 others == iter_order((DOMAIN offsets) \ {cond_dp_offset}, asc)
             IN  IF zero_offset.k = "AddData"
                 THEN IF zero_offset.amount # 1 /\ zero_offset.amount # ByteMod - 1
                      THEN [out |-> Append(il, cmd), n |-> 0, panic |-> FALSE]
                      ELSE LET reps_mult == IF zero_offset.amount = ByteMod - 1 THEN ByteMod - 1 ELSE 1
                               loop_adds ==
                                  [j \in 1 .. Len(others) |->
                                     IF offsets[others[j]].k = "AddData"
                                     THEN CombineData(cond_dp_offset, others[j],
                                              wrapping_mul(reps_mult, offsets[others[j]].amount))
                                     ELSE ModData(SetKind(offsets[others[j]].amount), others[j])]
                           IN  [out |-> il \o guarded(Append(loop_adds, set0)), n |-> 1,
                                panic |-> FALSE]
                 ELSE LET loop_adds ==
                             IF zero_offset.amount # 0 THEN <<InfiniteLoopAst>>
                             ELSE Append([j \in 1 .. Len(others) |->
                                             ModData(offsets[others[j]], others[j])], set0)
                      IN  [out |-> il \o guarded(loop_adds), n |-> 0, panic |-> FALSE]

\* what the Ok arm pushes for one Loop: [out, n, panic]
const_loop_ok(cmd, offsets, asc) ==
    LET cond_dp_offset == cmd.cond_dp_offset
        hint == cmd.known_to_be_nontrivial
        il == IF cond_dp_offset \in DOMAIN offsets THEN <<>>
              ELSE IF hint THEN <<InfiniteLoopAst>>
              ELSE <<IfNonZero(cond_dp_offset, <<InfiniteLoopAst>>)>>
        set0 == ModData(SetKind(0), cond_dp_offset)
        guarded(loop_adds) == IF hint THEN loop_adds ELSE <<IfNonZero(cond_dp_offset, loop_adds)>>
    IN  IF Cardinality(DOMAIN offsets) = 1
        THEN [out |-> Append(il, set0), n |-> 1, panic |-> FALSE]
        ELSE IF cond_dp_offset \notin DOMAIN offsets
        \* offsets.remove(&cond_dp_offset).unwrap() on None
        THEN [out |-> il, n |-> 0, panic |-> TRUE]
        ELSE LET zero_offset == offsets[cond_dp_offset]
                 others == iter_order((DOMAIN offsets) \ {cond_dp_offset}, asc)
             IN  IF zero_offset.k = "AddData"
                 THEN IF zero_offset.amount # 1 /\ zero_offset.amount # ByteMod - 1
                      THEN [out |-> Append(il, cmd), n |-> 0, panic |-> FALSE]
                      ELSE LET reps_mult == IF zero_offset.amount = ByteMod - 1 THEN 1 ELSE ByteMod - 1
                               loop_adds ==
                                  [j \in 1 .. Len(others) |->
                                     IF offsets[others[j]].k = "AddData"
                                     THEN CombineData(cond_dp_offset, others[j],
                                              wrapping_mul(reps_mult, offsets[others[j]].amount))
                                     ELSE ModData(SetKind(offsets[others[j]].amount), others[j])]
                           IN  [out |-> il \o guarded(Append(loop_adds, set0)), n |-> 1,
                                panic |-> FALSE]
                 ELSE LET loop_adds ==
                             IF zero_offset.amount # 0 THEN <<InfiniteLoopAst>>
                             ELSE Append([j \in 1 .. Len(others) |->
                                             ModData(offsets[others[j]], others[j])], set0)
                      IN  [out |-> il \o guarded(loop_adds), n |-> 0, panic |-> FALSE]

\* what the Err arm pushes for one Loop
const_loop_err(cmd) ==
    IF cmd.elements = <<>>
    THEN [out |-> <<IfNonZero(cmd.cond_dp_offset, <<InfiniteLoopAst>>)>>, n |-> 1, panic |-> FALSE]
    ELSE IF Len(cmd.elements) = 1
    THEN IF cmd.elements[1].t = "ShiftDataPtr"
         THEN [out |-> <<ShiftLoop(cmd.cond_dp_offset, cmd.elements[1].amount,
                                   cmd.known_to_be_nontrivial)>>,
               n |-> 1, panic |-> FALSE]
         ELSE [out |-> <<>>, n |-> 0, panic |-> FALSE]
    ELSE [out |-> <<cmd>>, n |-> 0, panic |-> FALSE]

\* what the second for loop pushes for one command
const_loop_one(cmd, asc) ==
    IF cmd.t # "Loop" THEN [out |-> <<cmd>>, n |-> 0, panic |-> FALSE]
    ELSE LET r == only_data(cmd.elements)
         IN  IF r.ok THEN const_loop_ok(cmd, r.offsets, asc) ELSE const_loop_err(cmd)

\* the second for loop from the command at i on; a panic ends it
const_loop_fold(old, i, acc, asc) ==
    LET body(a, j) ==
            IF a.panic THEN a
            ELSE LET r == const_loop_one(old[j], asc)
                 IN  [cmds |-> a.cmds \o r.out, n |-> a.n + r.n, panic |-> r.panic]
    IN  For(body, acc, i, Len(old))

\* the rewritten sequence, the number of changes counted, and whether the pass
\* panicked on an unwrap
RECURSIVE const_loop_remove(_, _)
const_loop_remove(cs, asc) ==
    LET inner == [i \in 1 .. Len(cs) |->
                    IF cs[i].t = "Loop"
                    THEN const_loop_remove(cs[i].elements, asc)
                    ELSE [cmds |-> <<>>, n |-> 0, panic |-> FALSE]]
        old == [i \in 1 .. Len(cs) |->
                    IF cs[i].t = "Loop"
                    THEN [cs[i] EXCEPT !.elements = inner[i].cmds]
                    ELSE cs[i]]
    IN  IF \E i \in 1 .. Len(cs) : inner[i].panic
        THEN [cmds |-> cs, n |-> 0, panic |-> TRUE]
        ELSE const_loop_fold(old, 1, [cmds |-> <<>>, n |-> sum_n(inner), panic |-> FALSE], asc)

----------------------------------------------------------------------------
(* The optimizer: opt_step, optimize *)

\* one round: the IR after it, the changes it reports, whether it panicked
opt_step(cs, asc) ==
    LET swap == sort_commands(cs)
        coll == collapse_consecutive(swap.cmds)
        deloop == const_loop_remove(coll.cmds, asc)
        simulate_removal == run_simulation(deloop.cmds)
        one_step == one_step_loops(simulate_removal.cmds)
    IN  IF deloop.panic THEN [cmds |-> cs, n |-> 0, panic |-> TRUE]
        ELSE [cmds |-> one_step.cmds,
              n |-> swap.n + coll.n + deloop.n + simulate_removal.n + one_step.n,
              panic |-> FALSE]

----------------------------------------------------------------------------
(* Lowering: src/src/lib/optimized/mod.rs CompiledInstr, compile_ast *)

JumpIfZero(c, tgt) == [t |-> "JumpIfZero", cond_dp_offset |-> c, target_ip |-> tgt]
JumpIfNonzero(c, tgt) == [t |-> "JumpIfNonzero", cond_dp_offset |-> c, target_ip |-> tgt]
AddPtr(a) == [t |-> "AddPtr", amount |-> a]
SubPtr(a) == [t |-> "SubPtr", amount |-> a]
AddData(a, d) == [t |-> "AddData", amount |-> a, dp_offset |-> d]
SetData(a, d) == [t |-> "SetData", amount |-> a, dp_offset |-> d]
AddTwoData(s, d, m) == [t |-> "AddTwoData", source_dp_offset |-> s, target_dp_offset |-> d, source_amt_mult |-> m]

\* compile_shift with the two directions exchanged
compile_shift_flipped(amount) ==
    IF amount > 0 THEN <<SubPtr(amount)>>
    ELSE IF amount < 0 THEN <<AddPtr(-amount)>>
    ELSE <<>>

\* the instructions a ShiftDataPtr lowers to
compile_shift(amount) ==
    IF amount > 0 THEN <<AddPtr(amount)>>
    ELSE IF amount < 0 THEN <<SubPtr(-amount)>>
    ELSE <<>>

\* ShiftLoop: header test, pointer move, jump back to the header
compile_shift_loop(out, cmd) ==
    LET start_ip == Len(out)
        body == compile_shift(cmd.dp_shift)
        end_ip == start_ip + Len(body) + 2
    IN  out \o <<JumpIfZero(cmd.cond_dp_offset, end_ip)>> \o body
            \o <<JumpIfNonzero(cmd.cond_dp_offset, start_ip)>>

compile_assert_equals(out, cmd) ==
    Append(out, [t |-> "AssertEquals", dp_offset |-> cmd.dp_offset, val |-> cmd.val])

\* out after the commands cs have been lowered onto it; ips count from 0
RECURSIVE compile_ast_helper(_, _)

\* the Loop arm with end_ip taken before the closing jump is pushed
compile_loop_early_end(out, cmd) ==
    LET start_ip == Len(out)
        body == compile_ast_helper(Append(out, JumpIfZero(cmd.cond_dp_offset, 0)),
                                   cmd.elements)
        end_ip == Len(body)
        closed == Append(body, JumpIfNonzero(cmd.cond_dp_offset, start_ip))
    IN  [closed EXCEPT ![start_ip + 1] = JumpIfZero(cmd.cond_dp_offset, end_ip)]

\* the Loop arm: placeholder, body, closing jump, then the header's target
compile_loop(out, cmd) ==
    LET start_ip == Len(out)
        body == compile_ast_helper(Append(out, JumpIfZero(cmd.cond_dp_offset, 0)),
                                   cmd.elements)
        closed == Append(body, JumpIfNonzero(cmd.cond_dp_offset, start_ip))
        end_ip == Len(closed)
    IN  [closed EXCEPT ![start_ip + 1] = JumpIfZero(cmd.cond_dp_offset, end_ip)]

compile_cmd(out, cmd) ==
    CASE cmd.t = "Loop" -> compile_loop(out, cmd)
      [] cmd.t = "IfNonZero" ->
            LET start_ip == Len(out)
                body == compile_ast_helper(Append(out, JumpIfZero(cmd.cond_dp_offset, 0)),
                                           cmd.elements)
                end_ip == Len(body)
            IN  [body EXCEPT ![start_ip + 1] = JumpIfZero(cmd.cond_dp_offset, end_ip)]
      [] cmd.t = "InfiniteLoop" -> Append(out, [t |-> "InfiniteLoop"])
      [] cmd.t = "ShiftDataPtr" -> out \o compile_shift(cmd.amount)
      [] cmd.t = "ModData" ->
            Append(out, IF cmd.kind.k = "AddData"
                        THEN AddData(cmd.kind.amount, cmd.dp_offset)
                        ELSE SetData(cmd.kind.amount, cmd.dp_offset))
      [] cmd.t = "ReadByte" -> Append(out, [t |-> "ReadByte", dp_offset |-> cmd.dp_offset])
      [] cmd.t = "WriteByte" -> Append(out, [t |-> "WriteByte", dp_offset |-> cmd.dp_offset])
      [] cmd.t = "WriteConst" -> Append(out, [t |-> "WriteConst", out |-> cmd.out])
      [] cmd.t = "CombineData" ->
            Append(out, AddTwoData(cmd.source_dp_offset, cmd.target_dp_offset, cmd.source_amt_mult))
      [] cmd.t = "ShiftLoop" -> compile_shift_loop(out, cmd)
      [] cmd.t = "AssertEquals" -> compile_assert_equals(out, cmd)

compile_ast_helper(out, cs) ==
    LET body(o, i) == compile_cmd(o, cs[i])
    IN  For(body, out, 1, Len(cs))

compile_ast(cs) == compile_ast_helper(<<>>, cs)

----------------------------------------------------------------------------
(* Byte source of the test harness: src/src/interpreter/main.rs FixedInput *)

FixedInput_new == [dp |-> 0, reads |-> 0]

\* read_byte: the byte returned and the source after the call
FixedInput_read_byte(self, data) ==
    IF self.dp >= Len(data)
    THEN [byte |-> 0, self |-> self]
    ELSE [byte |-> data[self.dp + 1], self |-> [dp |-> self.dp + 1, reads |-> self.reads + 1]]

----------------------------------------------------------------------------
(* Optimized interpreter: src/src/interpreter/opt_vm.rs *)

ZeroTape == [i \in 0 .. (TapeLen - 1) |-> 0]
InTape(i) == i \in 0 .. (TapeLen - 1)

\* how many reads have met the end of input: 0, 1, or 2 for more than once
count_eof(n, at_end) == IF ~at_end THEN n ELSE IF n = 0 THEN 1 ELSE 2

\* res: "running" while in the while loop, "ok" once run returned Ok(()),
\* "panic" when an index left the tape; halted: the loop was left by the
\* InfiniteLoop arm; assert_failed: an AssertEquals mismatch was printed;
\* eof_reads, last_read: the reads that met the end of input (see count_eof)
\* and the last byte read
OptVM_new ==
    [ip |-> 0, dp |-> 0, data |-> ZeroTape, inp |-> FixedInput_new, out |-> <<>>,
     res |-> "running", halted |-> FALSE, assert_failed |-> FALSE, eof_reads |-> 0,
     last_read |-> 0]

\* the AssertEquals arm with a mismatch treated as an error of the run
OptVM_assert_equals_strict(vm, cur) ==
    LET actual_dp == vm.dp + cur.dp_offset
    IN  IF ~InTape(actual_dp) THEN [vm EXCEPT !.res = "panic"]
        ELSE IF cur.val # vm.data[actual_dp]
        THEN [vm EXCEPT !.assert_failed = TRUE, !.res = "error"]
        ELSE [vm EXCEPT !.ip = @ + 1]

\* the AssertEquals arm: a message on a mismatch, and ip += 1
OptVM_assert_equals(vm, cur) ==
    LET actual_dp == vm.dp + cur.dp_offset
    IN  IF ~InTape(actual_dp) THEN [vm EXCEPT !.res = "panic"]
        ELSE IF cur.val # vm.data[actual_dp]
        THEN [vm EXCEPT !.assert_failed = TRUE, !.ip = @ + 1]
        ELSE [vm EXCEPT !.ip = @ + 1]

\* one turn of OptVM::run's while loop
OptVM_step(vm, instr, in_data) ==
    LET cur == instr[vm.ip + 1]
        next == [vm EXCEPT !.ip = @ + 1]
        panic == [vm EXCEPT !.res = "panic"]
    IN  CASE cur.t = "JumpIfNonzero" ->
                LET actual_dp == vm.dp + cur.cond_dp_offset
                IN  IF ~InTape(actual_dp) THEN panic
                    ELSE IF vm.data[actual_dp] # 0 THEN [vm EXCEPT !.ip = cur.target_ip]
                    ELSE next
          [] cur.t = "JumpIfZero" ->
                LET actual_dp == vm.dp + cur.cond_dp_offset
                IN  IF ~InTape(actual_dp) THEN panic
                    ELSE IF vm.data[actual_dp] = 0 THEN [vm EXCEPT !.ip = cur.target_ip]
                    ELSE next
          [] cur.t = "AddData" ->
                LET local_dp == vm.dp + cur.dp_offset
                IN  IF ~InTape(local_dp) THEN panic
                    ELSE [next EXCEPT !.data[local_dp] = wrapping_add(@, cur.amount)]
          [] cur.t = "SetData" ->
                LET local_dp == vm.dp + cur.dp_offset
                IN  IF ~InTape(local_dp) THEN panic
                    ELSE [next EXCEPT !.data[local_dp] = cur.amount]
          [] cur.t = "AddTwoData" ->
                LET source_dp == vm.dp + cur.source_dp_offset
                    target_dp == vm.dp + cur.target_dp_offset
                IN  IF ~InTape(source_dp) \/ ~InTape(target_dp) THEN panic
                    ELSE [next EXCEPT !.data[target_dp] =
                             wrapping_add(@, wrapping_mul(vm.data[source_dp], cur.source_amt_mult))]
          [] cur.t = "AddPtr" -> [next EXCEPT !.dp = @ + cur.amount]
          [] cur.t = "SubPtr" -> [next EXCEPT !.dp = @ - cur.amount]
          [] cur.t = "ReadByte" ->
                LET actual_dp == vm.dp + cur.dp_offset
                    r == FixedInput_read_byte(vm.inp, in_data)
                    \* the call is made before the cell is indexed
                    read == [vm EXCEPT !.inp = r.self, !.last_read = r.byte,
                                       !.eof_reads = count_eof(@, vm.inp.dp >= Len(in_data))]
                IN  IF ~InTape(actual_dp) THEN [read EXCEPT !.res = "panic"]
                    ELSE [read EXCEPT !.ip = @ + 1, !.data[actual_dp] = r.byte]
          [] cur.t = "WriteByte" ->
                LET actual_dp == vm.dp + cur.dp_offset
                IN  IF ~InTape(actual_dp) THEN panic
                    ELSE [next EXCEPT !.out = Append(@, vm.data[actual_dp])]
          [] cur.t = "WriteConst" -> [next EXCEPT !.out = Append(@, cur.out)]
          [] cur.t = "InfiniteLoop" -> [vm EXCEPT !.res = "ok", !.halted = TRUE]
          [] cur.t = "AssertEquals" -> OptVM_assert_equals(vm, cur)

\* whether the instruction at ip writes a byte to the output
OptVM_writes(vm, instr) ==
    vm.ip < Len(instr) /\ instr[vm.ip + 1].t \in {"WriteByte", "WriteConst"}

----------------------------------------------------------------------------
(* Reference interpreter: src/src/interpreter/simple_vm.rs *)

\* wraps: dp has wrapped below 0, which only a build without overflow checks does
SimpleVM_new ==
    [ip |-> 0, dp |-> 0, data |-> ZeroTape, inp |-> FixedInput_new, out |-> <<>>,
     res |-> "running", wraps |-> FALSE, eof_reads |-> 0, last_read |-> 0]

\* one turn of SimpleVM::run's while loop; checked: the build checks overflow
SimpleVM_step(vm, instr, in_data, checked) ==
    LET cur == instr[vm.ip + 1]
        next == [vm EXCEPT !.ip = @ + 1]
        panic == [vm EXCEPT !.res = "panic"]
    IN  CASE cur.t = "LoopEnd" ->
                IF ~InTape(vm.dp) THEN panic
                ELSE IF vm.data[vm.dp] # 0 THEN [vm EXCEPT !.ip = cur.start_ip]
                ELSE next
          [] cur.t = "LoopStart" ->
                IF ~InTape(vm.dp) THEN panic
                ELSE IF vm.data[vm.dp] = 0 THEN [vm EXCEPT !.ip = cur.end_ip + 1]
                ELSE next
          [] cur.t = "IncByte" ->
                IF ~InTape(vm.dp) THEN panic
                ELSE [next EXCEPT !.data[vm.dp] = wrapping_add(@, 1)]
          [] cur.t = "DecByte" ->
                IF ~InTape(vm.dp) THEN panic
                ELSE [next EXCEPT !.data[vm.dp] = wrapping_sub(@, 1)]
          [] cur.t = "IncPtr" -> [next EXCEPT !.dp = @ + 1]
          [] cur.t = "DecPtr" ->
                IF vm.dp = 0
                THEN IF checked THEN panic ELSE [next EXCEPT !.dp = @ - 1, !.wraps = TRUE]
                ELSE [next EXCEPT !.dp = @ - 1]
          [] cur.t = "ReadByte" ->
                LET r == FixedInput_read_byte(vm.inp, in_data)
                    read == [vm EXCEPT !.inp = r.self, !.last_read = r.byte,
                                       !.eof_reads = count_eof(@, vm.inp.dp >= Len(in_data))]
                IN  IF ~InTape(vm.dp) THEN [read EXCEPT !.res = "panic"]
                    ELSE [read EXCEPT !.ip = @ + 1, !.data[vm.dp] = r.byte]
          [] cur.t = "WriteByte" ->
                IF ~InTape(vm.dp) THEN panic
                ELSE [next EXCEPT !.out = Append(@, vm.data[vm.dp])]

SimpleVM_writes(vm, instr) == vm.ip < Len(instr) /\ instr[vm.ip + 1].t = "WriteByte"

\* the exit status of the process: main exits 1 when run returns Err, a panic
\* exits 101, and returning from main exits 0
ExitCode(res) == IF res = "ok" THEN 0 ELSE IF res = "panic" THEN 101 ELSE 1

----------------------------------------------------------------------------
(* Byte source of the binary: src/src/interpreter/io/mod.rs StdIn *)

EOF_OUTPUT == 0
NEWLINE_OUTPUT == 10

\* what one read_line call on the terminal gives: the bytes of a line, no
\* bytes at all (end of input), or an error
Line(bytes) == [err |-> FALSE, bytes |-> bytes]
EndOfInput == [err |-> FALSE, bytes |-> <<>>]
ReadError == [err |-> TRUE, bytes |-> <<>>]

\* terminal: what the coming read_line calls give, then end of input for ever;
\* ret: what the last read_byte returned; eof_reads: the read_byte calls made
\* once a read_line had given no bytes, that call included (see count_eof)
StdIn_new(terminal) ==
    [eof |-> FALSE, input_buffer |-> <<>>, terminal |-> terminal,
     ret |-> [kind |-> "none", byte |-> 0], eof_reads |-> 0]

RetOk(b) == [kind |-> "ok", byte |-> b]
RetErr == [kind |-> "err", byte |-> 0]

newline_map(bytes) ==
    [i \in 1 .. Len(bytes) |-> IF bytes[i] = 10 THEN NEWLINE_OUTPUT ELSE bytes[i]]

\* read_byte without its test of the eof flag: every call goes to the buffer
\* and the terminal
StdIn_read_byte_no_flag(self) ==
    IF self.input_buffer # <<>>
    THEN [self EXCEPT !.ret = RetOk(Head(self.input_buffer)), !.input_buffer = Tail(@),
                      !.eof_reads = count_eof(@, @ > 0)]
    ELSE LET to_read == IF self.terminal = <<>> THEN EndOfInput ELSE Head(self.terminal)
             rest == IF self.terminal = <<>> THEN <<>> ELSE Tail(self.terminal)
         IN  IF to_read.err
             THEN [self EXCEPT !.ret = RetErr, !.terminal = rest,
                               !.eof_reads = count_eof(@, @ > 0)]
             ELSE IF to_read.bytes = <<>>
             THEN [self EXCEPT !.eof = TRUE, !.ret = RetOk(EOF_OUTPUT), !.terminal = rest,
                               !.eof_reads = count_eof(@, TRUE)]
             ELSE LET buf == newline_map(to_read.bytes)
                  IN  [self EXCEPT !.ret = RetOk(Head(buf)), !.input_buffer = Tail(buf),
                                   !.terminal = rest, !.eof_reads = count_eof(@, @ > 0)]

\* StdIn after one read_byte call, ret holding what the call returned
StdIn_read_byte(self) ==
    IF self.eof
    THEN [self EXCEPT !.ret = RetOk(EOF_OUTPUT), !.eof_reads = count_eof(@, TRUE)]
    ELSE IF self.input_buffer # <<>>
    THEN [self EXCEPT !.ret = RetOk(Head(self.input_buffer)), !.input_buffer = Tail(@),
                      !.eof_reads = count_eof(@, @ > 0)]
    ELSE LET to_read == IF self.terminal = <<>> THEN EndOfInput ELSE Head(self.terminal)
             rest == IF self.terminal = <<>> THEN <<>> ELSE Tail(self.terminal)
         IN  IF to_read.err
             THEN [self EXCEPT !.ret = RetErr, !.terminal = rest,
                               !.eof_reads = count_eof(@, @ > 0)]
             ELSE IF to_read.bytes = <<>>
             THEN [self EXCEPT !.eof = TRUE, !.ret = RetOk(EOF_OUTPUT), !.terminal = rest,
                               !.eof_reads = count_eof(@, TRUE)]
             ELSE LET buf == newline_map(to_read.bytes)
                  IN  [self EXCEPT !.ret = RetOk(Head(buf)), !.input_buffer = Tail(buf),
                                   !.terminal = rest, !.eof_reads = count_eof(@, @ > 0)]

----------------------------------------------------------------------------
(* Inputs of the model *)

Strings(n) == UNION {[1 .. k -> Chars] : k \in 0 .. n}

\* the run of n copies of the character c
Rep(c, n) == [i \in 1 .. n |-> c]

\* repetition counts on both sides of the width of a cell
RepCounts == {1, 2, ByteMod - 1, ByteMod, ByteMod + 1}

\* n times + or -, on a cell that is zero or has just been read, then printed
ArithSource(pre, c, n) == pre \o Rep(c, n) \o <<".">>

ArithPrefixes == {<<>>, <<",">>}

ArithSources == {ArithSource(pre, c, n) : pre \in ArithPrefixes, c \in {"+", "-"}, n \in RepCounts}

\* longer programs: a loop whose body is one read, a loop that changes only
\* another cell, a loop that prints and clears its cell, cat, a product,
\* a scan, and two moves in a row
Fixtures ==
    { <<"+", "[", ",", "]">>,
      <<"+", "[", ">", "+", "<", "]">>,
      <<",", "[", ">", "+", "<", "]">>,
      <<",", "[", ".", "[", "-", "]", "]">>,
      <<",", "[", ".", ",", "]">>,
      <<"+", "+", "+", "[", ">", "+", "+", "<", "-", "]", ">", ".">>,
      <<",", ">", "+", "<", "[", ">", "]", ".">>,
      <<",", "[", ">", "+", "<", "-", "]", ">", "[", ">", "+", "<", "-", "]", ">", ".">> }

Sources == Strings(MaxLen) \cup ArithSources \cup Fixtures

\* programs for the optimizer alone: a Combine followed by a Set of its target,
\* a loop that earns the hint, loops that count up, loops whose net step is
\* not 1 or 255, a loop that sets another cell, shifts in front of loops, and
\* a loop of one write between two changes of its cell
PassFixtures ==
    { <<">", "+", "[", "-", "<", "+", ">", "]", "<", "[", "-", "]", ".">>,
      <<"+", "[", ".", ",", "]">>,
      <<",", "[", "+", ">", "+", "<", "]">>,
      <<",", "[", ">", "+", "+", "<", "+", "]">>,
      <<",", "[", ">", "[", "-", "]", "+", "<", "-", "]">>,
      <<",", "[", "+", "+", "]">>,
      <<",", "[", "-", "-", ">", "+", "<", "]">>,
      <<",", "[", "+", "+", "+", ">", "+", "<", "]">>,
      <<">", ",", "[", ".", "-", "]">>,
      <<",", "[", ">", ".", "<", "]">>,
      <<",", ">", "+", "<", "[", "-", ">", "+", "+", "<", "]", ">", ".">>,
      <<"+", "[", ">", "+", ".", "<", "-", "]">>,
      <<",", "[", "+", "[", ".", "]", "-", ".", "]">>,
      <<",", "+", "[", "-", "]">>,
      <<">", ",", "[", "-", "]", "<", "+", "+", "[", "-", ">", "+", "<", "]">>,
      <<",", "[", ">", "+", "<", "[", ">", "+", "<", ".", "[", "-", "]", "]", "]">>,
      <<">", ",", "[", ">", "]", ".">>,
      <<"+", "[", ".", "[", "-", "]", "]">>,
      <<",", "[", ">", "[", ".", "-", "]", "]">> }

PassSources == Sources \cup PassFixtures

InBytes == {0, 1, 65}

Inputs == UNION {[1 .. k -> InBytes] : k \in 0 .. MaxInput}

None == [none |-> TRUE]

TermEvents == {EndOfInput, ReadError, Line(<<65, 10>>), Line(<<0>>)}

Terminals == UNION {[1 .. k -> TermEvents] : k \in 0 .. MaxLines}

\* bytecode handed to OptVM::new as it is: an assertion that holds, one that
\* does not, and one on the byte just read
DirectCode ==
    { <<AddData(1, 0), [t |-> "AssertEquals", dp_offset |-> 0, val |-> 1],
        [t |-> "WriteByte", dp_offset |-> 0]>>,
      <<AddData(1, 0), [t |-> "AssertEquals", dp_offset |-> 0, val |-> 2],
        [t |-> "WriteByte", dp_offset |-> 0]>>,
      <<[t |-> "ReadByte", dp_offset |-> 0], AddPtr(1),
        [t |-> "AssertEquals", dp_offset |-> -1, val |-> 65],
        [t |-> "WriteByte", dp_offset |-> -1]>> }

\* a differential run of one source on one input through both back ends
InitRun ==
    /\ source \in Sources
    /\ input \in Inputs
    /\ pc = "parse"
    /\ code = <<>>
    /\ ovm = None
    /\ stdin = None

\* a run of OptVM on bytecode that did not come from a source
InitVM ==
    /\ source = <<>>
    /\ input \in Inputs
    /\ pc = "run_opt"
    /\ code \in DirectCode
    /\ ovm = OptVM_new
    /\ stdin = None

\* a sequence of read_byte calls on StdIn
InitStdIn ==
    /\ source = <<>>
    /\ input = <<>>
    /\ pc = "stdin"
    /\ code = <<>>
    /\ ovm = None
    /\ stdin \in {StdIn_new(term) : term \in Terminals}

Init ==
    /\ InitRun \/ InitVM \/ InitStdIn
    /\ opt = None
    /\ simple = None
    /\ cmds = <<>>
    /\ step = 0
    /\ last_count = 0
    /\ svm = None

\* full_parse, first line: parse the source into the tree IR
ParseOpt ==
    /\ pc = "parse"
    /\ opt' = parse(source)
    /\ cmds' = IF opt'.ok THEN opt'.ast ELSE <<>>
    /\ pc' = "simple_parse"
    /\ UNCHANGED <<source, input, simple, step, last_count, code, ovm, svm, stdin>>

\* simple_parse of the same source
ParseSimple ==
    /\ pc = "simple_parse"
    /\ simple' = simple_parse(source)
    /\ pc' = IF opt.ok THEN "optimize" ELSE "run_simple"
    /\ ovm' = IF opt.ok THEN ovm ELSE [res |-> "parse_error"]
    /\ UNCHANGED <<source, input, opt, cmds, step, last_count, code, svm, stdin>>

\* optimize: one turn of its loop, opt_step and the test of step_count
OptRound ==
    /\ pc = "optimize"
    /\ step < MaxRounds
    /\ \E asc \in BOOLEAN : \E r \in {opt_step(cmds, asc)} :
        IF r.panic
        THEN /\ ovm' = [res |-> "compile_panic"]
             /\ pc' = "run_simple"
             /\ UNCHANGED <<cmds, step, last_count>>
        ELSE /\ cmds' = r.cmds
             /\ last_count' = r.n
             /\ step' = IF r.n = 0 THEN step ELSE step + 1
             /\ pc' = IF r.n = 0 THEN "lower" ELSE "optimize"
             /\ UNCHANGED ovm
    /\ UNCHANGED <<source, input, opt, simple, code, svm, stdin>>

\* opt_step, first call: sort_commands on the IR, its count starts the round's sum
PassSort ==
    /\ pc = "optimize"
    /\ step < MaxRounds
    /\ \E r \in {sort_commands(cmds)} :
        /\ cmds' = r.cmds
        /\ last_count' = r.n
    /\ pc' = "collapse"
    /\ UNCHANGED <<source, input, opt, simple, step, code, ovm, svm, stdin>>

\* opt_step, second call: collapse_consecutive
PassCollapse ==
    /\ pc = "collapse"
    /\ \E r \in {collapse_consecutive(cmds)} :
        /\ cmds' = r.cmds
        /\ last_count' = last_count + r.n
    /\ pc' = "deloop"
    /\ UNCHANGED <<source, input, opt, simple, step, code, ovm, svm, stdin>>

\* opt_step, third call: const_loop_remove, which may panic on its unwrap
PassDeloop ==
    /\ pc = "deloop"
    /\ \E asc \in BOOLEAN : \E r \in {const_loop_remove(cmds, asc)} :
        IF r.panic
        THEN /\ ovm' = [res |-> "compile_panic"]
             /\ pc' = "run_simple"
             /\ UNCHANGED <<cmds, last_count>>
        ELSE /\ cmds' = r.cmds
             /\ last_count' = last_count + r.n
             /\ pc' = "simulate"
             /\ UNCHANGED ovm
    /\ UNCHANGED <<source, input, opt, simple, step, code, svm, stdin>>

\* opt_step, fourth call: run_simulation
PassSimulate ==
    /\ pc = "simulate"
    /\ \E r \in {run_simulation(cmds)} :
        /\ cmds' = r.cmds
        /\ last_count' = last_count + r.n
    /\ pc' = "one_step"
    /\ UNCHANGED <<source, input, opt, simple, step, code, ovm, svm, stdin>>

\* opt_step, last call: one_step_loops; then optimize's test of step_count
PassOneStep ==
    /\ pc = "one_step"
    /\ \E r \in {one_step_loops(cmds)} :
        /\ cmds' = r.cmds
        /\ last_count' = last_count + r.n
    /\ step' = IF last_count' = 0 THEN step ELSE step + 1
    /\ pc' = IF last_count' = 0 THEN "lower" ELSE "optimize"
    /\ UNCHANGED <<source, input, opt, simple, code, ovm, svm, stdin>>

\* full_parse, last line, and OptVM::new
Lower ==
    /\ pc = "lower"
    /\ code' = compile_ast(cmds)
    /\ ovm' = OptVM_new
    /\ pc' = "run_opt"
    /\ UNCHANGED <<source, input, opt, simple, cmds, step, last_count, svm, stdin>>

\* OptVM::run: one instruction, or the return once ip has left the program
OptRun ==
    /\ pc = "run_opt"
    /\ ovm.res = "running"
    /\ OptVM_writes(ovm, code) => Len(ovm.out) < MaxOut
    /\ ovm' = IF ovm.ip < Len(code) THEN OptVM_step(ovm, code, input)
              ELSE [ovm EXCEPT !.res = "ok"]
    /\ pc' = IF ovm'.res = "running" THEN "run_opt"
             ELSE IF opt = None THEN "done" ELSE "run_simple"
    /\ UNCHANGED <<source, input, opt, simple, cmds, step, last_count, code, svm, stdin>>

\* SimpleVM::new, or the Err that run returns on a parse error
SimpleStart ==
    /\ pc = "run_simple"
    /\ svm = None
    /\ svm' = IF simple.ok THEN SimpleVM_new ELSE [res |-> "parse_error"]
    /\ pc' = IF simple.ok THEN "run_simple" ELSE "done"
    /\ UNCHANGED <<source, input, opt, simple, cmds, step, last_count, code, ovm, stdin>>

\* SimpleVM::run: one instruction, or the return once ip has left the program
SimpleRun ==
    /\ pc = "run_simple"
    /\ svm # None
    /\ svm.res = "running"
    /\ SimpleVM_writes(svm, simple.code) => Len(svm.out) < MaxOut
    /\ \E checked \in BOOLEAN :
        /\ svm.wraps => ~checked
        /\ svm' = IF svm.ip < Len(simple.code)
                  THEN SimpleVM_step(svm, simple.code, input, checked)
                  ELSE [svm EXCEPT !.res = "ok"]
    /\ pc' = IF svm'.res = "running" THEN "run_simple" ELSE "done"
    /\ UNCHANGED <<source, input, opt, simple, cmds, step, last_count, code, ovm, stdin>>

\* one read_byte call on StdIn; an Err ends the run that made the call
StdInRead ==
    /\ pc = "stdin"
    /\ stdin.ret.kind # "err"
    /\ stdin' = StdIn_read_byte(stdin)
    /\ UNCHANGED <<source, input, pc, opt, simple, cmds, step, last_count, code, ovm, svm>>

Next ==
    \/ ParseOpt
    \/ ParseSimple
    \/ OptRound
    \/ Lower
    \/ OptRun
    \/ SimpleStart
    \/ SimpleRun
    \/ StdInRead

Spec == Init /\ [][Next]_vars

\* the optimizer alone, one pass at a time, on the parsed sources
InitPasses ==
    /\ source \in PassSources
    /\ input = <<>>
    /\ pc = "parse"
    /\ code = <<>>
    /\ ovm = None
    /\ stdin = None
    /\ opt = None
    /\ simple = None
    /\ cmds = <<>>
    /\ step = 0
    /\ last_count = 0
    /\ svm = None

NextPasses ==
    \/ ParseOpt
    \/ ParseSimple
    \/ PassSort
    \/ PassCollapse
    \/ PassDeloop
    \/ PassSimulate
    \/ PassOneStep

PassSpec == InitPasses /\ [][NextPasses]_vars

----------------------------------------------------------------------------
(* Properties *)

\* whether r is the state of a VM (and not the absence of one or an early result)
IsVM(r) == "ip" \in DOMAIN r

\* bracket depth after the first i characters of s, or -1 once a ] has been
\* met while no [ was open
Depth(s, i) ==
    LET body(d, k) ==
            IF d < 0 THEN -1
            ELSE IF s[k] = "[" THEN d + 1
            ELSE IF s[k] = "]" THEN d - 1
            ELSE d
    IN  For(body, 0, 1, i)

Balanced(s) == Depth(s, Len(s)) = 0

Count(s, c) == Cardinality({i \in 1 .. Len(s) : s[i] = c})

\* C1: for a source with balanced brackets and any input, the optimized
\* pipeline and the reference pipeline write the same bytes, consume the
\* same number of input bytes and end with the same status
C1_SameBehaviour ==
    (pc = "done" /\ opt # None /\ simple.ok /\ svm.res = "ok")
        => /\ ovm.res = "ok"
           /\ ovm.out = svm.out
           /\ ovm.inp = svm.inp

\* C2: each parser succeeds exactly on the sources whose brackets are
\* balanced, so the two parsers accept the same sources
C2_ParseIffBalanced ==
    /\ opt # None => (opt.ok <=> Balanced(source))
    /\ simple # None => (simple.ok <=> Balanced(source))

\* both parsers have rejected a source that has as many [ as ]
C2_Witness ==
    /\ opt # None /\ simple # None
    /\ ~opt.ok /\ ~simple.ok
    /\ Count(source, "[") = Count(source, "]")
    /\ Count(source, "[") > 0

\* the ] met while no [ is open, as 1-based positions (at most one)
FirstUnmatchedClose(s) == {i \in 1 .. Len(s) : s[i] = "]" /\ Depth(s, i - 1) = 0}

\* the [ at position i is never closed
NeverClosed(s, i) == \A j \in i .. Len(s) : Depth(s, j) >= Depth(s, i)

\* C3: a failed tree parse reports EndLoopWithoutStart with the index of the
\* first ] met while no [ is open, every character counted, or else
\* UnterminatedLoop with the index of a [ that is never closed, and carries
\* no IR
C3_ParseErrors ==
    (opt # None /\ ~opt.ok) =>
        /\ "ast" \notin DOMAIN opt
        /\ IF FirstUnmatchedClose(source) # {}
           THEN /\ opt.kind = "EndLoopWithoutStart"
                /\ opt.code_p + 1 \in FirstUnmatchedClose(source)
           ELSE /\ opt.kind = "UnterminatedLoop"
                /\ opt.code_p + 1 \in 1 .. Len(source)
                /\ source[opt.code_p + 1] = "["
                /\ NeverClosed(source, opt.code_p + 1)

\* an unmatched ] has been reported behind a comment character
C3_Witness ==
    /\ opt # None /\ ~opt.ok
    /\ opt.kind = "EndLoopWithoutStart"
    /\ opt.code_p > 0
    /\ source[1] = "#"

\* C4: on every parsed IR optimize() comes to a round that reports no change
\* and returns; no IR keeps the rounds reporting changes
C4_OptimizeReturns ==
    /\ pc = "optimize" => step < MaxRounds
    /\ (opt # None /\ opt.ok /\ pc \notin {"parse", "simple_parse", "optimize"})
          => (~("res" \in DOMAIN ovm /\ ovm.res = "compile_panic") /\ last_count = 0)

\* the instructions the commands cs lower to
RECURSIVE LoweredLen(_)
LoweredLen(cs) ==
    LET size(cmd) ==
            CASE cmd.t = "Loop" -> 2 + LoweredLen(cmd.elements)
              [] cmd.t = "IfNonZero" -> 1 + LoweredLen(cmd.elements)
              [] cmd.t = "ShiftDataPtr" -> IF cmd.amount = 0 THEN 0 ELSE 1
              [] cmd.t = "ShiftLoop" -> IF cmd.dp_shift = 0 THEN 2 ELSE 3
              [] OTHER -> 1
        body(n, i) == n + size(cs[i])
    IN  For(body, 0, 1, Len(cs))

\* whether prog, from index at on (counted from 0), holds cs lowered with
\* every Loop and IfNonZero framed by its jumps
RECURSIVE Framed(_, _, _)
Framed(cs, prog, at) ==
    LET framed_one(cmd, h) ==
            LET after == h + LoweredLen(<<cmd>>)
            IN  CASE cmd.t = "Loop" ->
                        /\ after <= Len(prog)
                        /\ prog[h + 1] = JumpIfZero(cmd.cond_dp_offset, after)
                        /\ prog[after] = JumpIfNonzero(cmd.cond_dp_offset, h)
                        /\ Framed(cmd.elements, prog, h + 1)
                  [] cmd.t = "IfNonZero" ->
                        /\ after <= Len(prog)
                        /\ prog[h + 1] = JumpIfZero(cmd.cond_dp_offset, after)
                        /\ Framed(cmd.elements, prog, h + 1)
                  [] OTHER -> after <= Len(prog)
        body(st, i) == [ok |-> st.ok /\ framed_one(cs[i], st.at),
                        at |-> st.at + LoweredLen(<<cs[i]>>)]
    IN  For(body, [ok |-> TRUE, at |-> at], 1, Len(cs)).ok

TargetsInBounds(prog) ==
    \A i \in 1 .. Len(prog) :
        prog[i].t \in {"JumpIfZero", "JumpIfNonzero"} => prog[i].target_ip \in 0 .. Len(prog)

\* C5: the bytecode lowered from any tree IR has every jump target within
\* [0, program_len]; a Loop is a JumpIfZero at h whose target is the index
\* just after a JumpIfNonzero that targets h, with the lowered body between
\* the two; an IfNonZero is one JumpIfZero whose target is the index just
\* after its lowered body (cmds is the IR wherever pc is one of the three)
C5_LoweringFrames ==
    LET prog == compile_ast(cmds)
    IN  pc \in {"simple_parse", "optimize", "lower"} =>
        /\ TargetsInBounds(prog)
        /\ Framed(cmds, prog, 0)
        /\ Len(prog) = LoweredLen(cmds)

\* the IR in hand holds a Loop inside a Loop and an IfNonZero
C5_Witness ==
    /\ \E i \in 1 .. Len(cmds) :
          /\ cmds[i].t = "Loop"
          /\ \E j \in 1 .. Len(cmds[i].elements) : cmds[i].elements[j].t = "Loop"
    /\ pc = "optimize"

\* every Loop node of cs, at any depth
RECURSIVE LoopsIn(_)
LoopsIn(cs) ==
    UNION {IF cs[i].t = "Loop" THEN {cs[i]} \cup LoopsIn(cs[i].elements)
           ELSE IF cs[i].t = "IfNonZero" THEN LoopsIn(cs[i].elements)
           ELSE {} : i \in 1 .. Len(cs)}

\* the body of l is Mod nodes only and leaves no net change at its cond cell
SpinsInPlace(l) ==
    /\ \A i \in 1 .. Len(l.elements) : l.elements[i].t = "ModData"
    /\ l.cond_dp_offset \notin DOMAIN only_data(l.elements).offsets

\* C6: on a Loop whose body is Mod nodes only with no net change at the cond
\* cell, the empty body included, the recognizer completes and leaves
\* IfNonZero{cond, [InfiniteLoop]}, or InfiniteLoop alone under the hint
C6_SpinLoopRecognized ==
    \A l \in LoopsIn(cmds) :
        SpinsInPlace(l) =>
            \A asc \in BOOLEAN :
                LET r == const_loop_one(l, asc)
                IN  /\ ~r.panic
                    /\ r.out = IF l.known_to_be_nontrivial
                               THEN <<InfiniteLoopAst>>
                               ELSE <<IfNonZero(l.cond_dp_offset, <<InfiniteLoopAst>>)>>

\* C7: a run of OptVM that has reached InfiniteLoop is reported as a failure
C7_InfiniteLoopFails ==
    (IsVM(ovm) /\ ovm.halted) => ExitCode(ovm.res) # 0

\* C8: once read_byte has returned 0 at the end of the input, every later
\* call returns 0 as well, and none returns an error
C8_StickyEof ==
    /\ (stdin # None /\ stdin.eof_reads > 0) => stdin.ret = RetOk(EOF_OUTPUT)
    /\ (IsVM(ovm) /\ ovm.eof_reads > 0) => ovm.last_read = EOF_OUTPUT
    /\ (svm # None /\ IsVM(svm) /\ svm.eof_reads > 0) => svm.last_read = EOF_OUTPUT

\* StdIn has been read again after the end of input while the terminal had
\* a further line to give
C8_Witness ==
    /\ stdin # None
    /\ stdin.eof_reads > 1
    /\ stdin.terminal # <<>>
    /\ Head(stdin.terminal).bytes # <<>>

\* the value of the cell before the run of + or -: the byte read, or 0
ArithStart(pre) == IF pre = <<",">> /\ input # <<>> THEN input[1] ELSE 0

\* C9: n times + (or -) on a cell holding v leave (v + n) mod 256 (or
\* (v - n) mod 256) in both pipelines, and the runs end without a failure
C9_ModularArithmetic ==
    pc = "done" =>
        \A pre \in ArithPrefixes, n \in RepCounts :
            /\ source = ArithSource(pre, "+", n) =>
                  /\ svm.res = "ok" /\ ovm.res = "ok"
                  /\ svm.out = <<(ArithStart(pre) + n) % ByteMod>>
                  /\ ovm.out = <<(ArithStart(pre) + n) % ByteMod>>
            /\ source = ArithSource(pre, "-", n) =>
                  /\ svm.res = "ok" /\ ovm.res = "ok"
                  /\ svm.out = <<(ArithStart(pre) - n) % ByteMod>>
                  /\ ovm.out = <<(ArithStart(pre) - n) % ByteMod>>

\* 256 times + on the byte 65 just read have printed 65 in both pipelines
C9_Witness ==
    /\ pc = "done"
    /\ source = ArithSource(<<",">>, "+", ByteMod)
    /\ input = <<65>>
    /\ svm.out = <<65>> /\ ovm.out = <<65>>

\* C10: an AssertEquals instruction, whether it holds or not, leaves the
\* tape, dp, the input consumed and the output alone and advances ip by one;
\* the run goes on
C10_AssertEqualsFrame ==
    [][(/\ pc = "run_opt"
        /\ ovm.res = "running"
        /\ ovm.ip < Len(code)
        /\ code[ovm.ip + 1].t = "AssertEquals")
         => /\ ovm'.data = ovm.data
            /\ ovm'.dp = ovm.dp
            /\ ovm'.inp = ovm.inp
            /\ ovm'.out = ovm.out
            /\ ovm'.ip = ovm.ip + 1
            /\ ovm'.res = "running"]_vars

\* a run has gone on past an assertion that did not hold, and has written
C10_Witness ==
    /\ IsVM(ovm)
    /\ ovm.assert_failed
    /\ ovm.res = "ok"
    /\ ovm.out # <<>>

\* the step of one pass of PassSpec, and the number of changes the pass reported
PassStep ==
    /\ pc \in {"optimize", "collapse", "deloop", "simulate", "one_step"}
    /\ pc' \in {"collapse", "deloop", "simulate", "one_step", "optimize", "lower"}
    /\ pc' # pc

Counted == IF pc = "optimize" THEN last_count' ELSE last_count' - last_count

\* C11: when optimize has returned, the IR is a fixed point of the pipeline:
\* one more round of the passes, whatever order the recognizer's map is
\* visited in, neither panics nor changes the IR
C11_FixedPoint ==
    pc = "lower" =>
        \A asc \in BOOLEAN :
            LET r == opt_step(cmds, asc)
            IN  ~r.panic /\ r.cmds = cmds

\* every node of the IR cs, at any nesting depth
RECURSIVE NodesIn(_)
NodesIn(cs) ==
    UNION {{cs[i]} \cup (IF cs[i].t \in {"Loop", "IfNonZero"} THEN NodesIn(cs[i].elements) ELSE {})
           : i \in 1 .. Len(cs)}

HasAddZero(cs) == \E nd \in NodesIn(cs) : nd.t = "ModData" /\ nd.kind = AddKind(0)

\* C12: no pass puts a Mod of kind Add(0) into an IR that had none, at any
\* nesting depth
C12_NoAddZero ==
    [][PassStep /\ ~HasAddZero(cmds) => ~HasAddZero(cmds')]_vars

\* P(P(x)) = P(x) for the reorder, collapse and recognizer passes on the IR x
IdemSort(x) == sort_commands(sort_commands(x).cmds).cmds = sort_commands(x).cmds

IdemCollapse(x) ==
    collapse_consecutive(collapse_consecutive(x).cmds).cmds = collapse_consecutive(x).cmds

IdemDeloop(x) ==
    \A asc \in BOOLEAN :
        LET r == const_loop_remove(x, asc)
        IN  ~r.panic =>
                \A again \in BOOLEAN :
                    LET r2 == const_loop_remove(r.cmds, again)
                    IN  ~r2.panic /\ r2.cmds = r.cmds

IdemSimulate(x) == run_simulation(run_simulation(x).cmds).cmds = run_simulation(x).cmds

RECURSIVE HintsOf(_)
HintsOf(cs) ==
    LET body(acc, i) ==
            acc \o (CASE cs[i].t = "Loop" ->
                            <<cs[i].known_to_be_nontrivial>> \o HintsOf(cs[i].elements)
                      [] cs[i].t = "IfNonZero" -> HintsOf(cs[i].elements)
                      [] cs[i].t = "ShiftLoop" -> <<cs[i].known_to_be_nontrivial>>
                      [] OTHER -> <<>>)
    IN  For(body, <<>>, 1, Len(cs))

\* every hint of after, from its index a on, can be given a hint of before
\* of its own, from index b on and in the same order, that is not true
\* where the hint of after is false
RECURSIVE HintsKeptFrom(_, _, _, _)
HintsKeptFrom(before, after, b, a) ==
    IF a > Len(after) THEN TRUE
    ELSE IF b > Len(before) THEN FALSE
    ELSE IF before[b] => after[a] THEN HintsKeptFrom(before, after, b + 1, a + 1)
    ELSE HintsKeptFrom(before, after, b + 1, a)

\* C14: no pass takes a hint from true to false: the passes keep the loops in
\* their order and make no new ones, so each loop a pass leaves is a loop of
\* its input, hinted if that one was
C14_HintOnlyRises ==
    [][PassStep => HintsKeptFrom(HintsOf(cmds), HintsOf(cmds'), 1, 1)]_vars

\* a loop that earned the hint in one round is still there, hinted, in the next
C14_Witness ==
    /\ pc \in {"collapse", "deloop", "simulate"}
    /\ step >= 1
    /\ \E l \in LoopsIn(cmds) : l.known_to_be_nontrivial

\* the number of instructions a trial run may take
RunFuel == 8 * ByteMod

\* OptVM::run on prog from the machine vm, for at most fuel instructions
RECURSIVE RunCode(_, _, _, _)
RunCode(prog, vm, in_data, fuel) ==
    IF fuel = 0 \/ vm.res # "running" \/ vm.ip >= Len(prog) THEN vm
    ELSE IF fuel = 1 THEN OptVM_step(vm, prog, in_data)
    ELSE LET half == fuel \div 2
         IN  CHOOSE last \in {RunCode(prog, first, in_data, fuel - half) :
                                 first \in {RunCode(prog, vm, in_data, half)}} : TRUE

\* how a trial run of prog ended: at the end of the program, at an
\* InfiniteLoop, on a cell outside the tape, or not within its fuel
Ending(vm, prog) ==
    IF vm.res = "panic" THEN "fault"
    ELSE IF vm.halted THEN "halt"
    ELSE IF vm.ip < Len(prog) THEN "fuel"
    ELSE "end"

\* the IR cs, lowered and run from the tape and dp given: how the run ended
\* and what it left
ExecIR(cs, tape, dp, in_data) ==
    LET prog == compile_ast(cs)
        vm == RunCode(prog, [OptVM_new EXCEPT !.data = tape, !.dp = dp], in_data, RunFuel)
    IN  [ending |-> Ending(vm, prog), data |-> vm.data, dp |-> vm.dp, inp |-> vm.inp,
         out |-> vm.out]

\* two runs that are the same to the program and to its user: both reach the
\* end with the same tape, dp, input consumed and output, or both stop at an
\* InfiniteLoop with the same input consumed and output
SameRun(v, w) ==
    /\ v.ending = w.ending
    /\ v.out = w.out
    /\ v.inp = w.inp
    /\ v.ending = "end" => v.data = w.data /\ v.dp = w.dp

\* the machines a trial starts from
TrialBytes == {0, 1, ByteMod - 1}

TrialTapes == [0 .. (TapeLen - 1) -> TrialBytes]

TrialInputs == {<<>>, <<65>>}

\* the swap sw leaves the pair with the same effect on every trial machine on
\* which the pair, as it was, stays on the tape and comes to an end
SwapPreserves(sw) ==
    \A tape \in TrialTapes, dp \in 0 .. (TapeLen - 1), in_data \in TrialInputs :
        LET was == ExecIR(<<sw.first, sw.second>>, tape, dp, in_data)
        IN  was.ending \in {"end", "halt"} =>
                SameRun(was, ExecIR(<<sw.a, sw.b>>, tape, dp, in_data))

\* C15: every swap that sort_commands is about to make on the IR, at any
\* depth, with the offset rewrite that goes with it, leaves tape, dp, input
\* consumed and output as the pair left them before the swap
C15_SwapsPreserve ==
    pc = "optimize" => \A sw \in sort_commands(cmds).swapped : SwapPreserves(sw)

\* the offset fields of the node nd and of the nodes inside it, in tree order
RECURSIVE OffsetsOf(_)
OffsetsOf(nd) ==
    CASE nd.t \in {"Loop", "IfNonZero"} ->
            LET body(acc, i) == acc \o OffsetsOf(nd.elements[i])
            IN  For(body, <<nd.cond_dp_offset>>, 1, Len(nd.elements))
      [] nd.t = "ShiftLoop" -> <<nd.cond_dp_offset>>
      [] nd.t = "CombineData" -> <<nd.source_dp_offset, nd.target_dp_offset>>
      [] nd.t \in {"ModData", "ReadByte", "WriteByte", "AssertEquals"} -> <<nd.dp_offset>>
      [] OTHER -> <<>>

\* the swaps of sort_commands on the IR that move a Shift past a node with
\* offset fields
ShiftSwaps ==
    {sw \in sort_commands(cmds).swapped :
        sw.first.t = "ShiftDataPtr" /\ OffsetsOf(sw.second) # <<>>}

\* the swap sw leaves the node in front with each offset moved by d, and the
\* Shift behind it
RewrittenBy(sw, d) ==
    /\ sw.b = sw.first
    /\ sw.a.t = sw.second.t
    /\ Len(OffsetsOf(sw.a)) = Len(OffsetsOf(sw.second))
    /\ \A i \in 1 .. Len(OffsetsOf(sw.second)) :
            OffsetsOf(sw.a)[i] = OffsetsOf(sw.second)[i] + d

\* C16 as stated: a Shift(k) moved past a node with offset fields leaves every
\* offset D of the node as D - k, and follows the node
C16_OffsetsMinusK ==
    pc = "optimize" => \A sw \in ShiftSwaps : RewrittenBy(sw, 0 - sw.first.amount)

\* C16 as amended: a Shift(k) moved past a node with offset fields leaves
\* every offset D of the node, and of the nodes inside it, as D + k, follows
\* the node, and the pair has the effect it had
C16_OffsetsPlusK ==
    pc = "optimize" =>
        \A sw \in ShiftSwaps : RewrittenBy(sw, sw.first.amount) /\ SwapPreserves(sw)

\* a Shift is about to pass a node that carries more than one offset
C16_Witness ==
    /\ pc = "optimize"
    /\ \E sw \in ShiftSwaps :
        /\ sw.first.amount # 0
        /\ Len(OffsetsOf(sw.second)) >= 2
        /\ \E tape \in TrialTapes, dp \in 0 .. (TapeLen - 1) :
               ExecIR(<<sw.first, sw.second>>, tape, dp, <<>>).ending = "end"

\* C17: no swap of sort_commands on the IR has a Shift in front and a Loop,
\* an IfNonZero, a ShiftLoop, a WriteConst, an InfiniteLoop or another Shift
\* behind it
C17_ShiftsStay ==
    pc = "optimize" =>
        \A sw \in sort_commands(cmds).swapped :
            sw.first.t = "ShiftDataPtr" =>
                sw.second.t \notin {"Loop", "IfNonZero", "ShiftLoop", "WriteConst",
                                    "InfiniteLoop", "ShiftDataPtr"}

IsIO(nd) == nd.t \in {"ReadByte", "WriteByte", "WriteConst"}

\* what an I/O node does, apart from the offset that a Shift may rewrite
IOKind(nd) == IF nd.t = "WriteConst" THEN <<nd.t, nd.out>> ELSE <<nd.t>>

IOKinds(cs) ==
    LET io == SelectSeq(cs, IsIO)
    IN  [i \in 1 .. Len(io) |-> IOKind(io[i])]

IsBox(nd) == nd.t \in {"Loop", "IfNonZero"}

\* the I/O nodes of xs and ys are the same kinds in the same order, and so
\* are those of their Loop and IfNonZero bodies, taken in order, at any depth
RECURSIVE SameIOOrder(_, _)
SameIOOrder(xs, ys) ==
    LET bx == SelectSeq(xs, IsBox)
        by == SelectSeq(ys, IsBox)
    IN  /\ IOKinds(xs) = IOKinds(ys)
        /\ Len(bx) = Len(by)
        /\ \A i \in 1 .. Len(bx) : SameIOOrder(bx[i].elements, by[i].elements)

\* C18: the reorder pass swaps no I/O node with another, and leaves the Read,
\* Write and WriteConst nodes of every sequence, at every depth, in the order
\* they had
C18_IOOrderKept ==
    [][pc = "optimize" /\ pc' = "collapse" =>
            /\ \A sw \in sort_commands(cmds).swapped : ~(IsIO(sw.first) /\ IsIO(sw.second))
            /\ SameIOOrder(cmds, cmds')]_vars

\* the first reorder pass has moved an I/O node of a program that has two
C18_Witness ==
    /\ pc = "collapse"
    /\ step = 0
    /\ last_count > 0
    /\ Len(IOKinds(cmds)) >= 2
    /\ Len(cmds) = Len(opt.ast)
    /\ \E i \in 1 .. Len(cmds) : IsIO(opt.ast[i]) /\ ~IsIO(cmds[i])

\* every Loop of cs, at any depth, as the second for loop of the recognizer
\* meets it: its body already rewritten by the recursive call
RECURSIVE LoopsSeen(_, _)
LoopsSeen(cs, asc) ==
    UNION {IF cs[i].t = "Loop"
           THEN {[cs[i] EXCEPT !.elements = const_loop_remove(cs[i].elements, asc).cmds]}
                    \cup LoopsSeen(cs[i].elements, asc)
           ELSE {} : i \in 1 .. Len(cs)}

\* the body of l is Mod nodes only, with net effect Add(1) or Add(255) at the
\* cond cell
CountsByOne(l) ==
    /\ \A i \in 1 .. Len(l.elements) : l.elements[i].t = "ModData"
    /\ LET offsets == only_data(l.elements).offsets
       IN  /\ l.cond_dp_offset \in DOMAIN offsets
           /\ offsets[l.cond_dp_offset] \in {AddKind(1), AddKind(ByteMod - 1)}

\* what the recognizer leaves for l runs, on the trial machine given, as l
\* itself runs there
ReplacementRunsAs(l, asc, tape, dp) ==
    LET was == ExecIR(<<l>>, tape, dp, <<>>)
    IN  was.ending = "end" =>
            SameRun(was, ExecIR(const_loop_one(l, asc).out, tape, dp, <<>>))

CountsByMore(l) ==
    /\ \A i \in 1 .. Len(l.elements) : l.elements[i].t = "ModData"
    /\ LET offsets == only_data(l.elements).offsets
       IN  /\ l.cond_dp_offset \in DOMAIN offsets
           /\ offsets[l.cond_dp_offset].k = "AddData"
           /\ offsets[l.cond_dp_offset].amount \notin {0, 1, ByteMod - 1}

\* C20: every Loop the recognizer meets whose body is Mod nodes only
\* with net effect Add(k) at the cond cell, k not 0, 1 or 255, is pushed as
\* it is and not counted, whatever the number of nodes in its body
C20_OddStepsKept ==
    pc = "deloop" =>
        \A asc \in BOOLEAN :
            \A l \in LoopsSeen(cmds, asc) :
                CountsByMore(l) =>
                    const_loop_one(l, asc) = [out |-> <<l>>, n |-> 0, panic |-> FALSE]

\* cs as the second for loop of collapse_consecutive meets it: the Loop
\* bodies already collapsed
CollapseOld(cs) ==
    [i \in 1 .. Len(cs) |->
        IF cs[i].t = "Loop"
        THEN [cs[i] EXCEPT !.elements = collapse_consecutive(cs[i].elements).cmds]
        ELSE cs[i]]

\* the merges of two Mod nodes at one offset that the second for loop makes
\* on old: the accumulator, the command, and what replaces them
MergesAt(old) ==
    LET body(s, i) ==
            LET acc == s.st.acc
                cmd == old[i]
                next == collapse_one(s.st, cmd)
            IN  [st |-> next,
                 merges |-> IF /\ acc.t = "ModData"
                               /\ cmd.t = "ModData"
                               /\ acc.dp_offset = cmd.dp_offset
                            THEN s.merges \cup {[acc |-> acc, cmd |-> cmd, merged |-> next.acc]}
                            ELSE s.merges]
    IN  For(body, [st |-> [out |-> <<>>, acc |-> NoAcc, n |-> 0], merges |-> {}],
            1, Len(old)).merges

\* the merges collapse_consecutive makes on cs, at any depth it goes to
RECURSIVE MergesIn(_)
MergesIn(cs) ==
    MergesAt(CollapseOld(cs))
        \cup UNION {IF cs[i].t = "Loop" THEN MergesIn(cs[i].elements) ELSE {} :
                        i \in 1 .. Len(cs)}

\* the tape of zeros with v in cell c
OneCell(c, v) == [x \in 0 .. (TapeLen - 1) |-> IF x = c THEN v ELSE 0]

\* the least dp that puts the offset d on the tape
DpFor(d) == IF d < 0 THEN 0 - d ELSE 0

\* the merged node leaves the machine as the two nodes in order leave it,
\* whatever byte the cell holds
MergePreserves(m) ==
    LET dp == DpFor(m.cmd.dp_offset)
    IN  \A v \in Byte :
            LET tape == OneCell(dp + m.cmd.dp_offset, v)
                was == ExecIR(<<m.acc, m.cmd>>, tape, dp, <<>>)
            IN  /\ was.ending = "end"
                /\ SameRun(was, ExecIR(<<m.merged>>, tape, dp, <<>>))

\* C21: every merge of two Mod nodes at one offset that the collapse pass is
\* about to make leaves one Mod node at that offset which gives the cell the
\* byte that the two nodes in order give it, from every byte
C21_MergeKeepsValue ==
    pc = "collapse" =>
        \A m \in MergesIn(cmds) :
            /\ m.merged.t = "ModData"
            /\ m.merged.dp_offset = m.cmd.dp_offset
            /\ MergePreserves(m)

\* the collapse pass is about to merge two Adds whose sum wraps
C21_Witness ==
    /\ pc = "collapse"
    /\ \E m \in MergesIn(cmds) :
          /\ m.acc.kind.k = "AddData"
          /\ m.cmd.kind.k = "AddData"
          /\ m.acc.kind.amount + m.cmd.kind.amount >= ByteMod

\* the merge rules of the collapse pass find nothing to do in the sequence cs
\* itself
NothingToMerge(cs) ==
    collapse_fold(cs, [out |-> <<>>, acc |-> NoAcc, n |-> 0]) = [cmds |-> cs, n |-> 0]

\* C22: what the collapse pass leaves has nothing for its merge rules to do
\* in the body of any Loop or IfNonZero, at any depth, nor at the top level
C22_EveryBodyCollapsed ==
    pc = "deloop" =>
        /\ NothingToMerge(cmds)
        /\ \A nd \in NodesIn(cmds) :
              nd.t \in {"Loop", "IfNonZero"} => NothingToMerge(nd.elements)

\* the state one_step_loops_ctx holds in front of old[i], having started old
\* in the state st
StateBefore(old, i, st) ==
    one_step_loops_ctx(SubSeq(old, 1, i - 1), 1, [out |-> <<>>, state |-> st, n |-> 0]).state

\* the calls of merge_divergent that one_step_loops_ctx makes on old started
\* in the state st, at any depth: the state in front of the branch, the state
\* the branch ends in, and the marker
RECURSIVE MergeCalls(_, _)
MergeCalls(old, st) ==
    UNION {LET state == StateBefore(old, i, st)
               cmd == old[i]
           IN  IF cmd.t = "Loop"
               THEN MergeCalls(cmd.elements,
                               set_data(SimState_new(Unknown), cmd.cond_dp_offset, UnknownNonzero))
               ELSE IF cmd.t = "IfNonZero"
               THEN LET cond == get_data(state, cmd.cond_dp_offset)
                        b == make_branch(state)
                        branch_state == set_data(b.branch, cmd.cond_dp_offset, UnknownNonzero)
                    IN  IF cond = Known(0) THEN {}
                        ELSE IF cond # Unknown THEN MergeCalls(cmd.elements, state)
                        ELSE {[self |-> state,
                               branch |-> one_step_loops_ctx(cmd.elements, 1,
                                             [out |-> <<>>, state |-> branch_state, n |-> 0]).state,
                               marker |-> b.marker]}
                                 \cup MergeCalls(cmd.elements, branch_state)
               ELSE {} : i \in 1 .. Len(old)}

\* what the state s reports for the cell k of the tape
FactAt(s, k) == IF k \in DOMAIN s.data THEN s.data[k] ELSE s.def_value

\* the cells either state names, and one that neither names
CellsOf(m) ==
    LET named == (DOMAIN m.self.data) \cup (DOMAIN m.branch.data) \cup {0}
    IN  named \cup {Max(named) + 1}

\* the merged state reports a fact only where both states report it, and
\* nothing at all once either side has wiped its knowledge
MergeIsIntersection(m) ==
    LET merged == merge_divergent(m.self, m.branch, m.marker)
    IN  \A k \in CellsOf(m) :
            /\ FactAt(merged, k) # Unknown =>
                  /\ FactAt(m.self, k) = FactAt(merged, k)
                  /\ FactAt(m.branch, k) = FactAt(merged, k)
            /\ (m.self.wipes # m.marker \/ m.branch.wipes # m.marker) =>
                  FactAt(merged, k) = Unknown

\* C23: in every call of merge_divergent that the one-step-loop pass is about
\* to make, the merged state reports Known(b) or UnknownNonzero for a cell
\* only if both states report that fact for it, and Unknown for every cell
\* if either side wiped its knowledge since the fork
C23_MergeIntersects ==
    pc = "one_step" =>
        \A m \in MergeCalls(cmds, SimState_new(Known(0))) : MergeIsIntersection(m)

\* every node one_step_loops_ctx meets on old started in the state st, at any
\* depth, with the state it holds in front of the node, the state behind it
\* and what it pushes for the node
RECURSIVE OneStepVisits(_, _)
OneStepVisits(old, st) ==
    UNION {LET state == StateBefore(old, i, st)
               cmd == old[i]
               inside ==
                  IF cmd.t = "Loop"
                  THEN OneStepVisits(cmd.elements,
                           set_data(SimState_new(Unknown), cmd.cond_dp_offset, UnknownNonzero))
                  ELSE IF cmd.t = "IfNonZero"
                  THEN LET cond == get_data(state, cmd.cond_dp_offset)
                       IN  IF cond = Known(0) THEN {}
                           ELSE IF cond # Unknown THEN OneStepVisits(cmd.elements, state)
                           ELSE OneStepVisits(cmd.elements,
                                    set_data(make_branch(state).branch, cmd.cond_dp_offset,
                                             UnknownNonzero))
                  ELSE {}
               r == one_step_one([out |-> <<>>, state |-> state, n |-> 0], cmd)
           IN  {[before |-> state, cmd |-> cmd, after |-> r.state, out |-> r.out]}
                    \cup inside : i \in 1 .. Len(old)}

\* every node run_simulation_ctx meets on old, with the state in front of it
\* and the state behind it
SimVisits(old) ==
    {LET state == run_simulation_ctx(SubSeq(old, 1, i - 1), 1,
                      [out |-> <<>>, state |-> SimState_new(Known(0)), n |-> 0]).state
     IN  [before |-> state, cmd |-> old[i],
          after |-> sim_one([out |-> <<>>, state |-> state, n |-> 0], old[i]).state] :
        i \in 1 .. Len(old)}

\* the offsets looked at around the data pointer
NearCells == (0 - TapeLen) .. TapeLen

\* behind the loop of v the state holds Known(0) at the cond offset, and at
\* any other offset nothing that it did not hold in front of the loop
LoopExitRecorded(v) ==
    /\ get_data(v.after, v.cmd.cond_dp_offset) = Known(0)
    /\ \A k \in NearCells \ {v.cmd.cond_dp_offset} :
          get_data(v.after, k) # Unknown =>
              /\ v.after.wipes = v.before.wipes
              /\ get_data(v.after, k) = get_data(v.before, k)

\* C24: behind every Loop and ShiftLoop that run_simulation or one_step_loops
\* passes, the abstract state holds Known(0) at the loop's cond offset, taken
\* from the dp at the loop's exit, and no fact at another offset that it did
\* not hold in front of the loop
C24_LoopExitKnownZero ==
    /\ pc = "simulate" =>
          \A v \in SimVisits(cmds) :
              v.cmd.t \in {"Loop", "ShiftLoop"} => LoopExitRecorded(v)
    /\ pc = "one_step" =>
          \A v \in OneStepVisits(cmds, SimState_new(Known(0))) :
              v.cmd.t \in {"Loop", "ShiftLoop"} => LoopExitRecorded(v)

\* the visit v is of a Loop that one_step_loops replaces by a branch or by
\* its body
LoopRewritten(v) ==
    /\ v.cmd.t = "Loop"
    /\ v.out # <<>>
    /\ v.out[1].t # "Loop" \/ Len(v.out) > 1

\* on every trial machine that the hint allows, what is pushed for the loop
\* of v runs as the loop runs
RewriteRunsAs(v) ==
    \A tape \in TrialTapes, dp \in 0 .. (TapeLen - 1), in_data \in TrialInputs :
        LET was == ExecIR(<<v.cmd>>, tape, dp, in_data)
            at == dp + v.cmd.cond_dp_offset
            entered == at \in 0 .. (TapeLen - 1) /\ tape[at] # 0
        IN  (was.ending \in {"end", "halt"} /\ (v.cmd.known_to_be_nontrivial => entered)) =>
                SameRun(was, ExecIR(v.out, tape, dp, in_data))

\* C25: whatever the one-step-loop pass is about to push in place of a Loop
\* (a branch around the body with AssertEquals(cond, 0), or the body itself
\* under the hint) leaves tape, dp, input consumed and output as the loop
\* leaves them, on every trial machine
C25_OneStepRewriteKept ==
    pc = "one_step" =>
        \A v \in OneStepVisits(cmds, SimState_new(Known(0))) :
            LoopRewritten(v) => RewriteRunsAs(v)

\* the pass is about to turn a Loop into a branch that ends with
\* AssertEquals(cond, 0), and on one trial machine the loop is entered, writes
\* and ends
C25_Witness ==
    /\ pc = "one_step"
    /\ \E v \in OneStepVisits(cmds, SimState_new(Known(0))) :
          /\ LoopRewritten(v)
          /\ v.out[1].t = "IfNonZero"
          /\ Last(v.out[1].elements) = AssertEqualsAst(v.cmd.cond_dp_offset, 0)
          /\ \E tape \in TrialTapes, dp \in 0 .. (TapeLen - 1) :
                LET was == ExecIR(<<v.cmd>>, tape, dp, <<>>)
                IN  /\ (dp + v.cmd.cond_dp_offset) \in 0 .. (TapeLen - 1)
                    /\ tape[dp + v.cmd.cond_dp_offset] # 0
                    /\ was.ending = "end"
                    /\ was.out # <<>>

\* the cells of the tape that the run left other than it found them
CellsChanged(tape, run) == {c \in DOMAIN tape : run.data[c] # tape[c]}

\* on every trial machine on which the subtree nd stays on the tape, the
\* cells it has changed when it ends, or stops at an InfiniteLoop, are among
\* the offsets mods taken from the dp at its entry
WritesWithin(nd, mods) ==
    \A tape \in TrialTapes, dp \in 0 .. (TapeLen - 1), in_data \in TrialInputs :
        LET run == ExecIR(<<nd>>, tape, dp, in_data)
        IN  run.ending \in {"end", "halt"} =>
                CellsChanged(tape, run) \subseteq {dp + m : m \in mods}

\* C26: for every Loop and IfNonZero of the IR in front of run_simulation, at
\* any depth, for which track_usage returns DataTracked with dp_shift 0,
\* every cell the subtree changes in a run is in data_mods, as an offset from
\* the dp at entry
C26_TrackedCoversWrites ==
    pc = "simulate" =>
        \A nd \in NodesIn(cmds) :
            (/\ nd.t \in {"Loop", "IfNonZero"}
             /\ ~track_usage(nd).lost
             /\ track_usage(nd).dp_shift = 0) =>
                WritesWithin(nd, track_usage(nd).data_mods)

\* run_simulation is in front of a Loop or IfNonZero that track_usage tracks
\* with dp_shift 0, and one trial run of it changes a cell other than its
\* cond cell
C26_Witness ==
    /\ pc = "simulate"
    /\ \E i \in 1 .. Len(cmds) :
          /\ cmds[i].t \in {"Loop", "IfNonZero"}
          /\ ~track_usage(cmds[i]).lost
          /\ track_usage(cmds[i]).dp_shift = 0
          /\ \E tape \in TrialTapes, dp \in 0 .. (TapeLen - 1) :
                LET run == ExecIR(<<cmds[i]>>, tape, dp, <<>>)
                IN  /\ run.ending = "end"
                    /\ CellsChanged(tape, run) \ {dp + cmds[i].cond_dp_offset} # {}

Abs(n) == IF n < 0 THEN 0 - n ELSE n

\* the ShiftLoop sl, lowered behind p instructions, is a JumpIfZero on its
\* cond offset to the index past the third instruction, an AddPtr or SubPtr
\* of |k|, and a jump on the cond offset back to the header
ThreeOps(sl, p) ==
    LET out == compile_ast([i \in 1 .. p |-> WriteConstAst(0)] \o <<sl>>)
    IN  /\ Len(out) = p + 3
        /\ out[p + 1] = JumpIfZero(sl.cond_dp_offset, p + 3)
        /\ out[p + 2] = IF sl.dp_shift > 0 THEN AddPtr(sl.dp_shift) ELSE SubPtr(Abs(sl.dp_shift))
        /\ out[p + 3] = JumpIfNonzero(sl.cond_dp_offset, p)

\* the cell that the scan of sl from dp looks at after n moves
ScanCell(sl, dp, n) == dp + n * sl.dp_shift + sl.cond_dp_offset

\* the scan of sl over tape from dp stops after n moves: the cell it looks at
\* then is zero, and the cells it looked at before were on the tape and not
\* zero
StopsAfter(sl, tape, dp, n) ==
    /\ ScanCell(sl, dp, n) \in DOMAIN tape
    /\ tape[ScanCell(sl, dp, n)] = 0
    /\ \A j \in 0 .. (n - 1) :
          /\ ScanCell(sl, dp, j) \in DOMAIN tape
          /\ tape[ScanCell(sl, dp, j)] # 0

\* run from dp on tape, the lowered sl ends exactly when the scan stops on
\* the tape, with dp moved by k once for each move and the tape as it was
ScansToZero(sl) ==
    \A tape \in TrialTapes, dp \in 0 .. (TapeLen - 1) :
        LET run == ExecIR(<<sl>>, tape, dp, <<>>)
        IN  /\ run.ending = "end" =>
                  \E n \in 0 .. TapeLen :
                      /\ StopsAfter(sl, tape, dp, n)
                      /\ run.dp = dp + n * sl.dp_shift
                      /\ run.data = tape
            /\ (\E n \in 0 .. TapeLen :
                    /\ StopsAfter(sl, tape, dp, n)
                    /\ (dp + n * sl.dp_shift) \in DOMAIN tape) =>
                  run.ending = "end"

\* C27: every ShiftLoop of the IR in hand, at any depth, lowers to the three
\* instructions (JumpIfZero past the third, AddPtr or SubPtr of |k|, jump
\* back to the header), wherever in the program it stands, and running them
\* moves dp by k until the cell at the cond offset is zero
C27_ShiftLoopLowered ==
    \A sl \in NodesIn(cmds) :
        sl.t = "ShiftLoop" =>
            /\ \A p \in 0 .. MaxLen : ThreeOps(sl, p)
            /\ ScansToZero(sl)

\* the IR holds a ShiftLoop whose cond offset is not 0, and on one trial tape
\* its scan moves dp and ends
C27_Witness ==
    \E sl \in NodesIn(cmds) :
        /\ sl.t = "ShiftLoop"
        /\ sl.cond_dp_offset # 0
        /\ \E tape \in TrialTapes, dp \in 0 .. (TapeLen - 1) :
              LET run == ExecIR(<<sl>>, tape, dp, <<>>)
              IN  run.ending = "end" /\ run.dp # dp

\* the fact f holds of the byte b
FactHolds(f, b) ==
    IF f = Unknown THEN TRUE
    ELSE IF f = UnknownNonzero THEN b # 0
    ELSE b = f

\* the run of the first i - 1 nodes of old from the start of the program, on
\* the input given
RunBefore(old, i, in_data) == ExecIR(SubSeq(old, 1, i - 1), OptVM_new.data, OptVM_new.dp, in_data)

\* what the state st holds in front of old[i] is true of every cell near dp
\* in each trial run that comes to old[i]
FactsSound(old, i, st) ==
    \A in_data \in TrialInputs :
        LET run == RunBefore(old, i, in_data)
        IN  run.ending = "end" =>
                \A k \in NearCells :
                    (run.dp + k) \in DOMAIN run.data =>
                        FactHolds(get_data(st, k), run.data[run.dp + k])

\* C28: in front of every top-level node of the IR, what run_simulation and
\* one_step_loops hold about a cell (Known(b), UnknownNonzero) is true of
\* that cell in every trial run of the IR that comes to the node
C28_FactsSound ==
    /\ pc = "simulate" =>
          \A i \in 1 .. Len(cmds) :
              FactsSound(cmds, i,
                  run_simulation_ctx(SubSeq(cmds, 1, i - 1), 1,
                      [out |-> <<>>, state |-> SimState_new(Known(0)), n |-> 0]).state)
    /\ pc = "one_step" =>
          \A i \in 1 .. Len(cmds) :
              FactsSound(cmds, i, StateBefore(cmds, i, SimState_new(Known(0))))

\* the body of l holds a node that is not a Mod: I/O, a loop, a branch, a
\* Combine or a Shift, and is not one Shift alone
NoClosedForm(l) ==
    /\ \E i \in 1 .. Len(l.elements) :
          l.elements[i].t \in {"ReadByte", "WriteByte", "WriteConst", "Loop", "ShiftLoop",
                               "IfNonZero", "CombineData", "ShiftDataPtr"}
    /\ ~(Len(l.elements) = 1 /\ l.elements[1].t = "ShiftDataPtr")

\* C29: every Loop the recognizer meets whose body holds I/O, a loop, a
\* branch, a Combine or a Shift, and is not one Shift alone, is pushed as it
\* is, a body of one node included
C29_OtherLoopsKept ==
    pc = "deloop" =>
        \A asc \in BOOLEAN :
            \A l \in LoopsSeen(cmds, asc) :
                NoClosedForm(l) => const_loop_one(l, asc).out = <<l>>

----------------------------------------------------------------------------
(* C30: loop indices of the reference program                               *)

\* the instruction with pointer p of a reference program
InstrAt(prog, p) == prog[p + 1]

Pointers(prog) == 0 .. Len(prog) - 1

\* LoopStarts minus LoopEnds among the instructions with pointers lo .. hi
DepthOver(prog, lo, hi) ==
    Cardinality({p \in lo .. hi : InstrAt(prog, p).t = "LoopStart"})
        - Cardinality({p \in lo .. hi : InstrAt(prog, p).t = "LoopEnd"})

\* the instructions with pointers lo .. hi close every loop they open and
\* nothing else
BracketBalanced(prog, lo, hi) ==
    /\ \A k \in lo .. hi : DepthOver(prog, lo, k) >= 0
    /\ DepthOver(prog, lo, hi) = 0

MutuallyMatching(prog) ==
    /\ \A i \in Pointers(prog) :
          InstrAt(prog, i).t = "LoopStart" =>
              LET j == InstrAt(prog, i).end_ip
              IN  /\ i < j
                  /\ j \in Pointers(prog)
                  /\ InstrAt(prog, j).t = "LoopEnd"
                  /\ InstrAt(prog, j).start_ip = i
                  /\ BracketBalanced(prog, i + 1, j - 1)
    /\ \A j \in Pointers(prog) :
          InstrAt(prog, j).t = "LoopEnd" =>
              LET i == InstrAt(prog, j).start_ip
              IN  /\ i \in Pointers(prog)
                  /\ InstrAt(prog, i).t = "LoopStart"
                  /\ InstrAt(prog, i).end_ip = j

\* where the two jumps of SimpleVM::run can go
JumpsWithin(prog) ==
    \A p \in Pointers(prog) :
        /\ InstrAt(prog, p).t = "LoopStart" => InstrAt(prog, p).end_ip + 1 \in 0 .. Len(prog)
        /\ InstrAt(prog, p).t = "LoopEnd" => InstrAt(prog, p).start_ip \in 0 .. Len(prog)

\* the reference interpreter is running the program simple_parse returned
SimpleRunning == simple # None /\ simple.ok /\ svm # None /\ svm.res = "running"

\* C30: in every program the reference parser returns, each LoopStart at i
\* with end_ip j has i < j, a LoopEnd at j with start_ip i, and a
\* bracket-balanced stretch strictly between them (and each LoopEnd points
\* back at the LoopStart that points at it); every jump target, and every
\* instruction pointer the reference interpreter reaches, is within
\* 0 .. program length
C30_LoopsMatch ==
    /\ (simple # None /\ simple.ok) =>
          MutuallyMatching(simple.code) /\ JumpsWithin(simple.code)
    /\ SimpleRunning =>
          /\ svm.ip \in 0 .. Len(simple.code)
          /\ svm.ip < Len(simple.code) =>
                \A checked \in BOOLEAN :
                    SimpleVM_step(svm, simple.code, input, checked).ip \in 0 .. Len(simple.code)

\* a loop inside a loop, the outer one just skipped by the jump of its
\* LoopStart to the end of the program: its write never ran
C30_Witness ==
    /\ SimpleRunning
    /\ \E i \in Pointers(simple.code) : \E k \in Pointers(simple.code) :
          /\ InstrAt(simple.code, i).t = "LoopStart"
          /\ InstrAt(simple.code, k).t = "LoopStart"
          /\ i < k /\ k < InstrAt(simple.code, i).end_ip
          /\ InstrAt(simple.code, i + 1).t = "WriteByte"
          /\ InstrAt(simple.code, i).end_ip + 1 = Len(simple.code)
          /\ svm.ip = Len(simple.code)
          /\ svm.out = <<>>

\* a character that is not an instruction ahead of a LoopEnd: its pointer
\* and its code position differ while the interpreter runs the program
C30_WitnessComment ==
    /\ SimpleRunning
    /\ \E j \in Pointers(simple.code) :
          /\ InstrAt(simple.code, j).t = "LoopEnd"
          /\ InstrAt(simple.code, j).code_p # j

=============================================================================
